---- MODULE Spec2Model ----
(***************************************************************************)
(* A model of thepaper's selection pipeline (package ai, analyzer.go):     *)
(* retryWithBackoff, scoreArticle, extractTagsAndCategory,                 *)
(* summarizeArticle, SelectAndSummarize, selectWithDiversity and           *)
(* isDuplicateTopic.                                                       *)
(*                                                                         *)
(* Strings are TLA+ strings (Len, SubSeq and \o act on them as on Go's     *)
(* ASCII strings).  A float64 is a record [nan, v]: v counts tenths       *)
(* (7.5 is v = 75), nan marks NaN.                                         *)
(***************************************************************************)
EXTENDS Integers, Sequences, FiniteSets, TLC

VARIABLES
    \* SelectAndSummarize and selectWithDiversity
    articles,        \* the articles argument: a sequence of [id, title]
    topN,            \* the topN argument
    oracle,          \* the replies the oracle can give in this run, per call kind
    pc,              \* position in SelectAndSummarize / selectWithDiversity
    analyzed,        \* the analyzed slice
    idx,             \* the index of the loop the program is in
    candidateCount,  \* SelectAndSummarize's candidateCount
    selected,        \* selectWithDiversity's selected slice
    categoryCount,   \* selectWithDiversity's categoryCount map
    selectedTopics,  \* selectWithDiversity's selectedTopics slice
    extracted,       \* ids of the articles extractTagsAndCategory was called for
    oracleCalls,     \* how many times GenerateContent was invoked in this run
    retErr,          \* the error SelectAndSummarize returns
    \* isDuplicateTopic called on its own
    dTitle, dTopics, dResult, dpc,
    \* retryWithBackoff called on its own
    rErrs, rResult, rpc,
    \* scoreArticle called on its own
    sScript,           \* the oracle's successive replies to the scoring prompt
    sResult,           \* what scoreArticle returned: [score, err, calls]
    \* main, FetchAll and the Analyzer's oracle traffic
    feedURLs,          \* the feed URLs main passes to FetchAll
    web,               \* what fetchSingle returns for the i-th feed: [err, items]
    task,              \* FetchAll's goroutines: "none", "running" or "done"
    articlesChan,      \* FetchAll's articlesChan
    errorsChan,        \* FetchAll's errorsChan
    mpc,               \* main's position
    mainArticles,      \* main's articles
    fetchErr,          \* the error FetchAll returned
    history,           \* the email_articles table: [fails, rows]
    recentArticleURLs, \* main's recentArticleURLs
    now,               \* the clock, in seconds since the Analyzer was made
    rateLimitDelay,    \* Analyzer.rateLimitDelay, in seconds
    lastRequestTime,   \* Analyzer.lastRequestTime
    jitter,            \* how long a sleep may overrun and an oracle call may take
    overloadsLeft,     \* how many more overload replies the oracle gives in this run
    aPhase,            \* the loop SelectAndSummarize is in: "score", "tags", "summary"
    aLeft,             \* iterations left in that loop
    attemptNo,         \* retryWithBackoff's attempt
    opc,               \* position in retryWithBackoff: "attempt", "limit", "flight"
    inFlight,          \* oracle calls entered and not yet returned
    prevStart,         \* when the oracle call before the latest one started
    lastStart,         \* when the latest oracle call started
    requested,         \* the duration the latest rateLimit passed to time.Sleep
    \* main from its first line to its last, the database, and the seed script
    users,             \* the users table: a sequence of [id, subscribed]
    sources,           \* the sources table: a sequence of [url, category, active]
    dryRun,            \* the --dry-run flag
    fetched,           \* the list FetchAll returned
    emailsSent,        \* the emails_sent table
    userEmails,        \* the user_emails table
    sends,             \* the calls of sender.Send, in order
    mIdx,              \* the index of the loop main is in
    runsLeft,          \* how many more times the program is run
    seedQueue,         \* seed_sources: the (category, url) pairs still to visit
    seedStats          \* seed_sources: [processed, added, skipped]

pipeVars == <<articles, topN, oracle, pc, analyzed, idx, candidateCount,
              selected, categoryCount, selectedTopics, extracted, oracleCalls,
              retErr>>
dupVars == <<dTitle, dTopics, dResult, dpc>>
retryVars == <<rErrs, rResult, rpc, sScript, sResult>>
runVars == <<feedURLs, web, task, articlesChan, errorsChan, mpc, mainArticles, fetchErr,
             history, recentArticleURLs, now, rateLimitDelay, lastRequestTime, jitter,
             overloadsLeft, aPhase, aLeft, attemptNo, opc, inFlight, prevStart, lastStart,
             requested>>
appVars == <<users, sources, dryRun, fetched, emailsSent, userEmails, sends, mIdx, runsLeft,
             seedQueue, seedStats>>
vars == <<pipeVars, dupVars, retryVars, runVars, appVars>>

Nil == "<nil>"

\* f as an explicit table: TLC then computes f's values once, not at every use
Table(f) == f @@ <<>>

-----------------------------------------------------------------------------
(* package strings                                                         *)

UpperLetters == "ABCDEFGHIJKLMNOPQRSTUVWXYZ"
LowerLetters == "abcdefghijklmnopqrstuvwxyz"

CharAt(s, i) == SubSeq(s, i, i)

LowerChar(c) ==
    IF \E k \in 1..Len(UpperLetters) : CharAt(UpperLetters, k) = c
    THEN CharAt(LowerLetters, CHOOSE k \in 1..Len(UpperLetters) : CharAt(UpperLetters, k) = c)
    ELSE c

RECURSIVE ToLowerFrom(_, _)
ToLowerFrom(s, i) ==
    IF i > Len(s) THEN "" ELSE LowerChar(CharAt(s, i)) \o ToLowerFrom(s, i + 1)

\* strings.ToLower
ToLower(s) == ToLowerFrom(s, 1)

IsSpace(c) == c \in {" ", "\t", "\n", "\r"}

RECURSIVE FieldsFrom(_, _, _, _)
FieldsFrom(s, i, cur, acc) ==
    IF i > Len(s)
    THEN IF cur = "" THEN acc ELSE Append(acc, cur)
    ELSE IF IsSpace(CharAt(s, i))
         THEN FieldsFrom(s, i + 1, "", IF cur = "" THEN acc ELSE Append(acc, cur))
         ELSE FieldsFrom(s, i + 1, cur \o CharAt(s, i), acc)

\* strings.Fields: the maximal runs of non-space characters, in order
Fields(s) == FieldsFrom(s, 1, "", <<>>)

\* strings.HasPrefix
HasPrefix(s, prefix) == Len(prefix) <= Len(s) /\ SubSeq(s, 1, Len(prefix)) = prefix

-----------------------------------------------------------------------------
(* isDuplicateTopic                                                        *)

insignificantWords ==
    {"the", "a", "an", "and", "or", "but", "in", "on", "at", "to",
     "for", "of", "with", "by", "from", "is", "are", "was", "were", "be",
     "how", "why", "what", "when", "where"}

\* the test of lines 349 and 353, negated: the word takes part in the comparison
Significant(word) == ~(Len(word) <= 2 \/ word \in insignificantWords)

\* line 357
WordsMatch(word, selectedWord) ==
    \/ word = selectedWord
    \/ HasPrefix(word, selectedWord)
    \/ HasPrefix(selectedWord, word)

\* the inner loop of lines 352-361: 1 when it reaches commonWords++ (then breaks), else 0
RECURSIVE InnerLoop(_, _, _)
InnerLoop(word, selectedWords, j) ==
    IF j > Len(selectedWords) THEN 0
    ELSE IF ~Significant(selectedWords[j]) THEN InnerLoop(word, selectedWords, j + 1)
    ELSE IF WordsMatch(word, selectedWords[j]) THEN 1
    ELSE InnerLoop(word, selectedWords, j + 1)

\* the outer loop of lines 348-362: commonWords after it
RECURSIVE CommonWords(_, _, _)
CommonWords(titleWords, selectedWords, k) ==
    IF k > Len(titleWords) THEN 0
    ELSE IF ~Significant(titleWords[k]) THEN CommonWords(titleWords, selectedWords, k + 1)
    ELSE InnerLoop(titleWords[k], selectedWords, 1)
             + CommonWords(titleWords, selectedWords, k + 1)

\* the loop of lines 365-370: significantTitleWords after it
RECURSIVE SignificantTitleWords(_, _)
SignificantTitleWords(titleWords, k) ==
    IF k > Len(titleWords) THEN 0
    ELSE (IF Significant(titleWords[k]) THEN 1 ELSE 0)
             + SignificantTitleWords(titleWords, k + 1)

\* line 372: float64(c)/float64(s) > 0.4.  The quotient is the double nearest to
\* c/s and the literal is the double nearest to 2/5, so for the small counts of
\* a title the comparison is that of the exact fractions: 5c > 2s.
RatioAboveThresholdOrEqual(c, s) == s > 0 /\ 5 * c >= 2 * s
RatioAboveThreshold(c, s) == s > 0 /\ 5 * c > 2 * s

\* the body of the loop of lines 334-375 for one selected title: TRUE when it returns true
DuplicateOf(titleWords, selectedTitle) ==
    LET selectedWords == Fields(ToLower(selectedTitle))
    IN  RatioAboveThreshold(CommonWords(titleWords, selectedWords, 1),
                            SignificantTitleWords(titleWords, 1))

isDuplicateTopic(title, topics) ==
    LET titleWords == Fields(ToLower(title))
    IN  \E t \in 1..Len(topics) : DuplicateOf(titleWords, topics[t])

-----------------------------------------------------------------------------
(* more of package strings, and strconv.ParseFloat                         *)

\* strings.Contains
Contains(s, substr) ==
    \E i \in 1..(Len(s) - Len(substr) + 1) : SubSeq(s, i, i + Len(substr) - 1) = substr

RECURSIVE TrimLeftSet(_, _)
TrimLeftSet(s, cutset) ==
    IF Len(s) > 0 /\ CharAt(s, 1) \in cutset
    THEN TrimLeftSet(SubSeq(s, 2, Len(s)), cutset) ELSE s

RECURSIVE TrimRightSet(_, _)
TrimRightSet(s, cutset) ==
    IF Len(s) > 0 /\ CharAt(s, Len(s)) \in cutset
    THEN TrimRightSet(SubSeq(s, 1, Len(s) - 1), cutset) ELSE s

\* strings.Trim(s, cutset), the cutset given as a set of characters
Trim(s, cutset) == TrimRightSet(TrimLeftSet(s, cutset), cutset)

\* strings.TrimSpace
TrimSpace(s) == Trim(s, {" ", "\t", "\n", "\r"})

\* strings.TrimPrefix
TrimPrefix(s, prefix) ==
    IF HasPrefix(s, prefix) THEN SubSeq(s, Len(prefix) + 1, Len(s)) ELSE s

RECURSIVE SplitFrom(_, _, _, _, _)
SplitFrom(s, sep, i, cur, acc) ==
    IF i > Len(s) THEN Append(acc, cur)
    ELSE IF CharAt(s, i) = sep
         THEN SplitFrom(s, sep, i + 1, "", Append(acc, cur))
         ELSE SplitFrom(s, sep, i + 1, cur \o CharAt(s, i), acc)

\* strings.Split(s, sep) for a separator of one character
Split(s, sep) == SplitFrom(s, sep, 1, "", <<>>)

\* float64 values: v counts tenths, nan marks NaN
Num(v) == [nan |-> FALSE, v |-> v]
NaN == [nan |-> TRUE, v |-> 0]

\* a > b on float64: false whenever an operand is NaN
FloatGT(a, b) == ~a.nan /\ ~b.nan /\ a.v > b.v

DecimalDigits == "0123456789"
IsDigit(c) == \E d \in 1..Len(DecimalDigits) : CharAt(DecimalDigits, d) = c
DigitValue(c) == (CHOOSE d \in 1..Len(DecimalDigits) : CharAt(DecimalDigits, d) = c) - 1
AllDigits(s) == \A i \in 1..Len(s) : IsDigit(CharAt(s, i))

RECURSIVE NatValue(_, _, _)
NatValue(s, i, acc) ==
    IF i > Len(s) THEN acc ELSE NatValue(s, i + 1, acc * 10 + DigitValue(CharAt(s, i)))

\* strconv.ParseFloat(s, 64): [ok, f].  Of the forms it accepts the model reads
\* the decimal ones, [+-]ddd[.ddd], and "NaN" in any case; exponents, hexadecimal
\* forms and "Inf" do not occur in the replies drawn below.  The value keeps one
\* fractional digit (the replies carry no more).
ParseFloat(s) ==
    LET signed == Len(s) > 0 /\ CharAt(s, 1) \in {"+", "-"}
        body == IF signed THEN SubSeq(s, 2, Len(s)) ELSE s
        dots == {i \in 1..Len(body) : CharAt(body, i) = "."}
        dot == IF dots = {} THEN Len(body) + 1 ELSE CHOOSE i \in dots : \A j \in dots : i <= j
        whole == SubSeq(body, 1, dot - 1)
        frac == SubSeq(body, dot + 1, Len(body))
        tenths == IF frac = "" THEN 0 ELSE DigitValue(CharAt(frac, 1))
        magnitude == NatValue(whole, 1, 0) * 10 + tenths
    IN  IF ToLower(s) = "nan" THEN [ok |-> TRUE, f |-> NaN]
        ELSE IF /\ Len(whole) + Len(frac) > 0
                /\ AllDigits(whole) /\ AllDigits(frac)
             THEN [ok |-> TRUE,
                   f |-> Num(IF signed /\ CharAt(s, 1) = "-" THEN 0 - magnitude ELSE magnitude)]
             ELSE [ok |-> FALSE, f |-> Num(0)]

-----------------------------------------------------------------------------
(* retryWithBackoff                                                        *)

\* the maxRetries every call site passes
OracleMaxRetries == 5

RECURSIVE Pow2(_)
Pow2(n) == IF n = 0 THEN 1 ELSE 2 * Pow2(n - 1)

\* line 60, in seconds
BackoffLinear(attempt) == attempt
Backoff(attempt) == Pow2(attempt - 1)

\* line 72
NeverRetryable(err) == FALSE
AlwaysRetryable(err) == TRUE
Retryable(err) == Contains(err, "RESOURCE_EXHAUSTED") \/ Contains(err, "429")

\* line 77: the error returned once every attempt has been used
ExhaustedIsNil(lastErr) == Nil
MaxRetriesExceeded(lastErr) == "max retries exceeded: " \o lastErr

\* The loop of lines 57-76 from `attempt` on.  errs[n] is what the n-th invocation
\* of fn returns (Nil or an error's text); log collects the sleeps and the
\* invocations in order.  [err, calls, log]
RECURSIVE RetryLoop(_, _, _, _, _)
RetryLoop(maxRetries, errs, attempt, lastErr, log) ==
    IF attempt > maxRetries
    THEN [err |-> MaxRetriesExceeded(lastErr), calls |-> attempt, log |-> log]
    ELSE LET slept == IF attempt > 0
                      THEN Append(log, [ev |-> "sleep", arg |-> Backoff(attempt)])
                      ELSE log
             called == Append(slept, [ev |-> "call", arg |-> attempt + 1])
             err == errs[attempt + 1]
         IN  IF err = Nil
             THEN [err |-> Nil, calls |-> attempt + 1, log |-> called]
             ELSE IF ~Retryable(err)
                  THEN [err |-> err, calls |-> attempt + 1, log |-> called]
                  ELSE RetryLoop(maxRetries, errs, attempt + 1, err, called)

retryWithBackoff(maxRetries, errs) == RetryLoop(maxRetries, errs, 0, Nil, <<>>)

-----------------------------------------------------------------------------
(* The oracle (client.Models.GenerateContent) and the three calls to it.   *)
(* A reply is [apiErr, text]: the call's error (Nil when it succeeds) and  *)
(* response.Text().  A script is the sequence of replies the successive    *)
(* invocations of one retryWithBackoff closure receive.                    *)

Answer(text) == [apiErr |-> Nil, text |-> text]
Failure(err) == [apiErr |-> err, text |-> ""]

Overloaded == Failure("Error 503, Status: RESOURCE_EXHAUSTED")
RateLimited == Failure("Error 429, Too Many Requests")
Unreachable == Failure("connection reset by peer")

\* k replies signalling overload
Busy(k) == [n \in 1..k |-> IF n % 2 = 1 THEN Overloaded ELSE RateLimited]

\* lines 171-189: what the closure returns for a reply
ScoreFnErr(reply) ==
    IF reply.apiErr # Nil THEN "failed to score article: " \o reply.apiErr
    ELSE IF ~ParseFloat(TrimSpace(reply.text)).ok
         THEN "invalid score format: " \o TrimSpace(reply.text)
         ELSE Nil

\* line 187: the parsed number is taken as it is
AcceptedScore(f) == f

\* scoreArticle: [score, err, calls]
scoreArticle(script) ==
    LET r == retryWithBackoff(OracleMaxRetries, [n \in DOMAIN script |-> ScoreFnErr(script[n])])
    IN  IF r.err # Nil
        THEN [score |-> Num(0), err |-> r.err, calls |-> r.calls]
        ELSE [score |-> AcceptedScore(ParseFloat(TrimSpace(script[r.calls].text)).f),
              err |-> Nil, calls |-> r.calls]

\* lines 244-256
ExtractFnErr(reply) ==
    IF reply.apiErr # Nil THEN "failed to extract tags: " \o reply.apiErr ELSE Nil

\* lines 274-279: the non-empty trimmed pieces, appended to tags
RECURSIVE AppendTags(_, _, _)
AppendTags(tags, pieces, n) ==
    IF n > Len(pieces) THEN tags
    ELSE AppendTags(IF TrimSpace(pieces[n]) # "" THEN Append(tags, TrimSpace(pieces[n])) ELSE tags,
                    pieces, n + 1)

\* the loop of lines 267-281 from line n on: [category, tags]
RECURSIVE ParseLines(_, _, _, _)
ParseLines(lines, n, category, tags) ==
    IF n > Len(lines) THEN [category |-> category, tags |-> tags]
    ELSE LET line == TrimSpace(lines[n])
         IN  IF HasPrefix(line, "Category:")
             THEN ParseLines(lines, n + 1, TrimSpace(TrimPrefix(line, "Category:")), tags)
             ELSE IF HasPrefix(line, "Tags:")
                  THEN ParseLines(lines, n + 1, category,
                           AppendTags(tags,
                               Split(Trim(TrimSpace(TrimPrefix(line, "Tags:")), {"[", "]"}), ","),
                               1))
                  ELSE ParseLines(lines, n + 1, category, tags)

\* extractTagsAndCategory: [tags, category, err, calls]
extractTagsAndCategory(script) ==
    LET r == retryWithBackoff(OracleMaxRetries, [n \in DOMAIN script |-> ExtractFnErr(script[n])])
        parsed == ParseLines(Split(TrimSpace(script[r.calls].text), "\n"), 1, "", <<>>)
    IN  IF r.err # Nil
        THEN [tags |-> <<>>, category |-> "", err |-> r.err, calls |-> r.calls]
        ELSE [tags |-> IF Len(parsed.tags) = 0 THEN <<"tech">> ELSE parsed.tags,
              category |-> IF parsed.category = "" THEN "General" ELSE parsed.category,
              err |-> Nil, calls |-> r.calls]

\* lines 209-221
SummarizeFnErr(reply) ==
    IF reply.apiErr # Nil THEN "failed to summarize article: " \o reply.apiErr ELSE Nil

\* summarizeArticle: [summary, err, calls]
summarizeArticle(script) ==
    LET r == retryWithBackoff(OracleMaxRetries, [n \in DOMAIN script |-> SummarizeFnErr(script[n])])
    IN  IF r.err # Nil
        THEN [summary |-> "", err |-> r.err, calls |-> r.calls]
        ELSE [summary |-> TrimSpace(script[r.calls].text), err |-> Nil, calls |-> r.calls]

-----------------------------------------------------------------------------
(* SelectAndSummarize and selectWithDiversity                              *)

\* bounds of the runs explored
MaxArticles == 4
MaxTopN == 1

FeedTitles ==
    <<"Rust 1.75 Released", "Python 3.13 Released", "Rust 1.75 Release Notes", "Go 1.22">>

\* the k-th article handed to SelectAndSummarize; id stands for its Link
ArticleNo(k) == [id |-> k, title |-> FeedTitles[((k - 1) % Len(FeedTitles)) + 1]]

\* the titles, in the order of their scores, of the twelve items the end-to-end
\* scenario scores, the scores the oracle gives them and the categories it
\* may name
ScenarioTitles ==
    <<"Rust 1.75 Released", "Python 3.13 Released", "Rust 1.75 Release Notes", "Go 1.22",
      "Postgres Vacuum Internals", "Kubernetes Gateway Tutorial", "Browser Rendering Pipeline",
      "Linux Scheduler Rewrite", "Quantum Error Correction", "Compiler Fuzzing Results",
      "Database Sharding Lessons", "Wireless Mesh Protocol">>
ScenarioScores ==
    <<"9.8", "9.5", "9.1", "8.7", "8.4", "8", "7.6", "7.3", "7", "6.5", "6.2", "5.9">>
ScenarioCategories == <<"AI/ML", "Security", "Backend", "Data">>
ScenarioTagText(c) == "Category: " \o ScenarioCategories[c] \o "\nTags: [news]"

\* the zero value of models.AnalyzedArticle
ZeroAnalyzed ==
    [id |-> 0, title |-> "", score |-> Num(0), tags |-> <<>>, category |-> "",
     summary |-> "", selected |-> FALSE]

ScoreScripts ==
    { <<Answer("11")>>, <<Answer("NaN")>>, <<Answer("Great article!")>>,
      Busy(1) \o <<Answer(" 11\n")>>, Busy(OracleMaxRetries + 1), <<Unreachable>> }

TagScripts ==
    { <<Answer("Category: AI/ML\nTags: [llm, , agents]")>>,
      <<Answer("Tags: [rust, release]")>>,
      <<Answer("Category: Security")>>,
      Busy(2) \o <<Answer(" Category: AI/ML \n Tags: llm,agents\n")>>,
      Busy(OracleMaxRetries + 1), <<Unreachable>> }

SummaryScripts ==
    { <<Answer("A one-sentence summary.")>>, <<Answer(" \n")>>,
      Busy(OracleMaxRetries + 1), <<Unreachable>> }

\* the replies of an oracle that answers as asked, by title
NominalScoreText ==
    [t \in {FeedTitles[k] : k \in 1..Len(FeedTitles)} |->
        CASE t = "Rust 1.75 Released" -> "9"
          [] t = "Python 3.13 Released" -> "8.5"
          [] t = "Rust 1.75 Release Notes" -> "7.5"
          [] OTHER -> "6"]
NominalTagText ==
    [t \in {FeedTitles[k] : k \in 1..Len(FeedTitles)} |->
        IF t = "Python 3.13 Released"
        THEN "Category: Data\nTags: [python]"
        ELSE "Category: Backend\nTags: [release, notes]"]
NominalSummaryText == "A one-sentence summary."

\* What the oracle may answer in one run, per call kind and title: a set of
\* scripts.  NominalOracle answers every call as asked.
NominalOracle ==
    LET titles == {FeedTitles[k] : k \in 1..Len(FeedTitles)}
    IN  [score |-> [t \in titles |-> {<<Answer(NominalScoreText[t])>>}],
         tags |-> [t \in titles |-> {<<Answer(NominalTagText[t])>>}],
         summary |-> [t \in titles |-> {<<Answer(NominalSummaryText)>>}]]

\* one call kind misbehaves at a time
OracleProfiles ==
    LET titles == {FeedTitles[k] : k \in 1..Len(FeedTitles)}
    IN  { [NominalOracle EXCEPT !.score = [t \in titles |-> ScoreScripts]],
          [NominalOracle EXCEPT !.tags = [t \in titles |-> TagScripts]],
          [NominalOracle EXCEPT !.summary = [t \in titles |-> SummaryScripts]] }

\* scoreArticle, extractTagsAndCategory and summarizeArticle on every script of
\* the model, evaluated once
ScoreTable ==
  Table(
    [s \in ScoreScripts \cup {<<Answer(NominalScoreText[FeedTitles[k]])>> : k \in 1..Len(FeedTitles)}
                        \cup {<<Answer(ScenarioScores[k])>> : k \in DOMAIN ScenarioScores}
        |-> scoreArticle(s)])
TagTable ==
  Table(
    [s \in TagScripts \cup {<<Answer(NominalTagText[FeedTitles[k]])>> : k \in 1..Len(FeedTitles)}
                      \cup {<<Answer(ScenarioTagText(c))>> : c \in DOMAIN ScenarioCategories}
        |-> extractTagsAndCategory(s)])
SummaryTable ==
  Table([s \in SummaryScripts \cup {<<Answer(NominalSummaryText)>>} |-> summarizeArticle(s)])

\* no call has started yet
Never == 0 - 1

IdleAnalyzer ==
    /\ now = 0 /\ rateLimitDelay = 0 /\ lastRequestTime = 0 /\ jitter = 0
    /\ overloadsLeft = 0 /\ aPhase = "none" /\ aLeft = 0 /\ attemptNo = 0
    /\ opc = "idle" /\ inFlight = 0 /\ prevStart = Never /\ lastStart = Never
    /\ requested = 0

IdleRun ==
    /\ feedURLs = <<>> /\ web = <<>> /\ task = <<>>
    /\ articlesChan = <<>> /\ errorsChan = <<>>
    /\ mpc = "idle" /\ mainArticles = <<>> /\ fetchErr = Nil
    /\ history = [fails |-> FALSE, rows |-> {}] /\ recentArticleURLs = {}
    /\ IdleAnalyzer

NoStats == [processed |-> 0, added |-> 0, skipped |-> 0]

IdleApp ==
    /\ users = <<>> /\ sources = <<>> /\ dryRun = FALSE /\ fetched = <<>>
    /\ emailsSent = <<>> /\ userEmails = {} /\ sends = <<>> /\ mIdx = 0
    /\ runsLeft = 0 /\ seedQueue = <<>> /\ seedStats = NoStats

IdleDup == dTitle = "" /\ dTopics = <<>> /\ dResult = FALSE /\ dpc = "idle"
NotScored == [score |-> Num(0), err |-> Nil, calls |-> 0]
IdleScore == sScript = <<>> /\ sResult = NotScored
IdleRetry ==
    /\ rErrs = <<>> /\ rResult = [err |-> Nil, calls |-> 0, log |-> <<>>] /\ rpc = "idle"
    /\ IdleScore

Init ==
    /\ \E m \in 0..MaxArticles : articles = [k \in 1..m |-> ArticleNo(k)]
    /\ topN \in 0..MaxTopN
    /\ oracle \in OracleProfiles
    /\ pc = "start"
    /\ analyzed = <<>>
    /\ idx = 0
    /\ candidateCount = 0
    /\ selected = <<>>
    /\ categoryCount = <<>>
    /\ selectedTopics = <<>>
    /\ extracted = {}
    /\ oracleCalls = 0
    /\ retErr = Nil
    /\ IdleDup
    /\ IdleRetry
    /\ IdleRun
    /\ IdleApp

\* line 82
FewArticles(list) == Len(list) <= 1

NoArticles(list) == Len(list) = 0

\* lines 82-88
Begin ==
    /\ pc = "start"
    /\ IF NoArticles(articles)
       THEN /\ retErr' = "no articles to analyze"
            /\ pc' = "done"
            /\ UNCHANGED <<analyzed, idx>>
       ELSE /\ analyzed' = [k \in 1..Len(articles) |-> ZeroAnalyzed]
            /\ idx' = 1
            /\ pc' = "score"
            /\ UNCHANGED retErr
    /\ UNCHANGED <<articles, topN, oracle, candidateCount, selected, categoryCount,
                   selectedTopics, extracted, oracleCalls>>
    /\ UNCHANGED <<dupVars, retryVars, runVars, appVars>>

\* line 98: the element of analyzed the i-th iteration writes
FirstSlot(i) == 1
Slot(i) == i

\* one iteration of the loop of lines 89-103
ScoreOne ==
    /\ pc = "score"
    /\ idx <= Len(articles)
    /\ \E script \in oracle.score[articles[idx].title] :
         LET r == ScoreTable[script]
         IN  /\ analyzed' = [analyzed EXCEPT ![Slot(idx)] =
                    [id |-> articles[idx].id, title |-> articles[idx].title,
                     score |-> IF r.err # Nil THEN Num(0) ELSE r.score,
                     tags |-> <<>>, category |-> "", summary |-> "", selected |-> FALSE]]
             /\ oracleCalls' = oracleCalls + r.calls
    /\ idx' = idx + 1
    /\ UNCHANGED <<articles, topN, oracle, pc, candidateCount, selected, categoryCount,
                   selectedTopics, extracted, retErr>>
    /\ UNCHANGED <<dupVars, retryVars, runVars, appVars>>

\* line 107, the less function handed to sort.Slice
Less(a, b) == FloatGT(a.score, b.score)

\* What sort.Slice(s, less) may leave: a permutation of s in which no element is
\* less than the one before it.  sort.Slice is not stable, so elements that
\* compare equal come in any order.  When less is a strict weak order these are
\* the sorted arrangements of s; when it is not (a NaN score compares false
\* both ways) the sort still ends with no element less than its predecessor,
\* which is all its insertion steps establish.
\* The arrangements are built from the front: an element may follow the last one
\* placed if it is not less than it.
RECURSIVE Arrangements(_, _, _)
Arrangements(s, rest, last) ==
    IF rest = {} THEN {<<>>}
    ELSE UNION { { <<s[i]>> \o tail : tail \in Arrangements(s, rest \ {i}, i) } :
                   i \in {j \in rest : last = 0 \/ ~Less(s[j], s[last])} }

SortSliceOutcomes(s) == Arrangements(s, DOMAIN s, 0)

Min(a, b) == IF a < b THEN a ELSE b

\* line 111
CandidateFactor == 3

\* lines 111-114
CandidateCount(n, len) == Min(n * CandidateFactor, len)

\* lines 105-116: the sort and candidateCount
SortScored ==
    /\ pc = "score"
    /\ idx > Len(articles)
    /\ analyzed' \in SortSliceOutcomes(analyzed)
    /\ candidateCount' = CandidateCount(topN, Len(analyzed))
    /\ idx' = 1
    /\ pc' = "extract"
    /\ UNCHANGED <<articles, topN, oracle, selected, categoryCount, selectedTopics,
                   extracted, oracleCalls, retErr>>
    /\ UNCHANGED <<dupVars, retryVars, runVars, appVars>>

\* lines 119-122: what SelectAndSummarize stores when extractTagsAndCategory fails
FailedExtraction == [tags |-> <<>>, category |-> "General"]

\* one iteration of the loop of lines 117-128
ExtractOne ==
    /\ pc = "extract"
    /\ idx <= candidateCount
    /\ \E script \in oracle.tags[analyzed[idx].title] :
         LET r == TagTable[script]
         IN  /\ analyzed' = [analyzed EXCEPT
                    ![idx].tags = IF r.err # Nil THEN FailedExtraction.tags ELSE r.tags,
                    ![idx].category = IF r.err # Nil THEN FailedExtraction.category
                                      ELSE r.category]
             /\ oracleCalls' = oracleCalls + r.calls
    /\ extracted' = extracted \cup {analyzed[idx].id}
    /\ idx' = idx + 1
    /\ UNCHANGED <<articles, topN, oracle, pc, candidateCount, selected, categoryCount,
                   selectedTopics, retErr>>
    /\ UNCHANGED <<dupVars, retryVars, runVars, appVars>>

\* line 131 and lines 295-300: the call of selectWithDiversity
BeginSelect ==
    /\ pc = "extract"
    /\ idx > candidateCount
    /\ selected' = <<>>
    /\ categoryCount' = <<>>
    /\ selectedTopics' = <<>>
    /\ idx' = 1
    /\ pc' = "select"
    /\ UNCHANGED <<articles, topN, oracle, analyzed, candidateCount, extracted, oracleCalls, retErr>>
    /\ UNCHANGED <<dupVars, retryVars, runVars, appVars>>

\* line 297
maxPerCategory == 2

\* categoryCount[category], 0 for a key the map does not hold
CountOf(counts, category) == IF category \in DOMAIN counts THEN counts[category] ELSE 0

\* line 308
CategoryFullNever(counts, category) == FALSE
CategoryFullAtThree(counts, category) == CountOf(counts, category) >= maxPerCategory + 1
CategoryFull(counts, category) == CountOf(counts, category) >= maxPerCategory

\* the titles of the candidates of this model
SelectTitles == {"Rust 1.75 Released", "Rust 1.75 Release Notes", "Python 3.13 Released", "Go 1.22"}

\* isDuplicateTopic(title, <<selectedTitle>>) on the titles of this model, evaluated once
DuplicateTable ==
  Table(
    [pair \in (SelectTitles \cup {FeedTitles[k] : k \in 1..Len(FeedTitles)}
                            \cup {ScenarioTitles[k] : k \in DOMAIN ScenarioTitles})
               \X (SelectTitles \cup {FeedTitles[k] : k \in 1..Len(FeedTitles)}
                               \cup {ScenarioTitles[k] : k \in DOMAIN ScenarioTitles})
        |-> isDuplicateTopic(pair[1], <<pair[2]>>)])

\* line 315: isDuplicateTopic(article.Title, selectedTopics), which is true when the
\* title duplicates one of the topics
TopicTakenNever(title, topics) == FALSE
TopicTaken(title, topics) == \E t \in 1..Len(topics) : DuplicateTable[<<title, topics[t]>>]

\* line 303
EnoughSelectedNever(sel, n) == FALSE
EnoughSelected(sel, n) == Len(sel) >= n

\* line 323
Prepended(sel, article) == <<article>> \o sel
Accepted(sel, article) == Append(sel, article)

\* one iteration of the loop of lines 302-324 that does not break
SelectOne ==
    /\ pc = "select"
    /\ idx <= Len(analyzed)
    /\ ~EnoughSelected(selected, topN)
    /\ LET article == analyzed[idx]
       IN  IF \/ CategoryFull(categoryCount, article.category)
              \/ TopicTaken(article.title, selectedTopics)
           THEN UNCHANGED <<selected, categoryCount, selectedTopics>>
           ELSE /\ selected' = Accepted(selected, article)
                /\ categoryCount' = (article.category :> (CountOf(categoryCount, article.category) + 1))
                                        @@ categoryCount
                /\ selectedTopics' = Append(selectedTopics, article.title)
    /\ idx' = idx + 1
    /\ UNCHANGED <<articles, topN, oracle, pc, analyzed, candidateCount, extracted, oracleCalls, retErr>>
    /\ UNCHANGED <<dupVars, retryVars, runVars, appVars>>

\* lines 303-305 and 326: the loop ends and selectWithDiversity returns
EndSelect ==
    /\ pc = "select"
    /\ (idx > Len(analyzed) \/ EnoughSelected(selected, topN))
    /\ idx' = 1
    /\ pc' = "summarize"
    /\ UNCHANGED <<articles, topN, oracle, analyzed, candidateCount, selected, categoryCount,
                   selectedTopics, extracted, oracleCalls, retErr>>
    /\ UNCHANGED <<dupVars, retryVars, runVars, appVars>>

\* one iteration of the loop of lines 140-150
SummarizeOne ==
    /\ pc = "summarize"
    /\ idx <= Len(selected)
    /\ \E script \in oracle.summary[selected[idx].title] :
         LET r == SummaryTable[script]
         IN  /\ selected' = [selected EXCEPT
                    ![idx].selected = TRUE,
                    ![idx].summary = IF r.err # Nil THEN "Summary unavailable." ELSE r.summary]
             /\ oracleCalls' = oracleCalls + r.calls
    /\ idx' = idx + 1
    /\ UNCHANGED <<articles, topN, oracle, pc, analyzed, candidateCount, categoryCount,
                   selectedTopics, extracted, retErr>>
    /\ UNCHANGED <<dupVars, retryVars, runVars, appVars>>

\* line 152
Return ==
    /\ pc = "summarize"
    /\ idx > Len(selected)
    /\ pc' = "done"
    /\ UNCHANGED <<articles, topN, oracle, analyzed, idx, candidateCount, selected,
                   categoryCount, selectedTopics, extracted, oracleCalls, retErr>>
    /\ UNCHANGED <<dupVars, retryVars, runVars, appVars>>

Next ==
    \/ Begin
    \/ ScoreOne
    \/ SortScored
    \/ ExtractOne
    \/ BeginSelect
    \/ SelectOne
    \/ EndSelect
    \/ SummarizeOne
    \/ Return

Spec == Init /\ [][Next]_vars

-----------------------------------------------------------------------------
(* isDuplicateTopic on its own: SpecDup calls it on a title and a list of  *)
(* selected titles                                                         *)

\* bound of the titles explored: the number of words of a candidate title
MaxTitleWords == 5

DupVocabulary == {"Rust", "release", "the"}

RECURSIVE TitlesOf(_)
TitlesOf(n) ==
    IF n = 0 THEN {""}
    ELSE LET shorter == TitlesOf(n - 1)
         IN  shorter \cup {IF t = "" THEN w ELSE t \o " " \o w : t \in shorter, w \in DupVocabulary}

DupTitles ==
    TitlesOf(MaxTitleWords)
        \cup {"Rust 1.75 Released", "Rust 1.75 Release Notes", "Python 3.13 Released",
              "  Go 1.22\tis out ", "Go to it"}

DupTopicLists ==
    { <<>>,
      <<"Rust 1.75 Released">>,
      <<"Rust 1.75 Release Notes">>,
      <<"Python 3.13 Released">>,
      <<"What is new in Go 1.22", "The RUST Releases">>,
      <<"Python 3.13 Released", "Rust 1.75 Released">> }

IdlePipe ==
    /\ articles = <<>> /\ topN = 0
    /\ oracle = [score |-> <<>>, tags |-> <<>>, summary |-> <<>>]
    /\ pc = "idle" /\ analyzed = <<>> /\ idx = 0 /\ candidateCount = 0
    /\ selected = <<>> /\ categoryCount = <<>> /\ selectedTopics = <<>>
    /\ extracted = {} /\ retErr = Nil /\ oracleCalls = 0

InitDup ==
    /\ dTitle \in DupTitles
    /\ dTopics \in DupTopicLists
    /\ dResult = FALSE
    /\ dpc = "call"
    /\ IdlePipe
    /\ IdleRetry
    /\ IdleRun
    /\ IdleApp

CallIsDuplicateTopic ==
    /\ dpc = "call"
    /\ dResult' = isDuplicateTopic(dTitle, dTopics)
    /\ dpc' = "done"
    /\ UNCHANGED <<dTitle, dTopics>>
    /\ UNCHANGED <<pipeVars, retryVars, runVars, appVars>>

NextDup == CallIsDuplicateTopic

SpecDup == InitDup /\ [][NextDup]_vars

-----------------------------------------------------------------------------
(* The topic-duplicate rule as the specification words it                  *)

\* the first and last positions of the whitespace-separated tokens of s
TokenSpans(s) ==
    LET blank(i) == i < 1 \/ i > Len(s) \/ IsSpace(CharAt(s, i))
    IN  { <<a, CHOOSE b \in a..Len(s) : blank(b + 1) /\ \A i \in a..b : ~blank(i)>> :
            a \in {i \in 1..Len(s) : ~blank(i) /\ blank(i - 1)} }

\* the lowercased tokens of length > 2 outside the stop-word set, by position
SignificantSpans(s) ==
    { sp \in TokenSpans(s) :
        /\ sp[2] - sp[1] + 1 > 2
        /\ ToLower(SubSeq(s, sp[1], sp[2])) \notin insignificantWords }

IsPrefixOf(p, w) == Len(p) <= Len(w) /\ \A i \in 1..Len(p) : CharAt(p, i) = CharAt(w, i)

\* the candidate's significant tokens that equal, are a prefix of, or are
\* prefixed by a significant token of the selected title
MatchingSpans(title, selectedTitle) ==
    LET theirs == {ToLower(SubSeq(selectedTitle, sp[1], sp[2])) : sp \in SignificantSpans(selectedTitle)}
    IN  { sp \in SignificantSpans(title) :
            LET w == ToLower(SubSeq(title, sp[1], sp[2]))
            IN  \E x \in theirs : IsPrefixOf(w, x) \/ IsPrefixOf(x, w) }

\* matching / significant > 0.4 for at least one selected title
TopicDuplicateRule(title, topics) ==
    \E n \in 1..Len(topics) :
        /\ SignificantSpans(title) # {}
        /\ 10 * Cardinality(MatchingSpans(title, topics[n])) > 4 * Cardinality(SignificantSpans(title))

\* C4: isDuplicateTopic returns true exactly when, for some selected title, more
\* than 0.4 of the candidate's significant tokens match a significant token of
\* that title; "Rust 1.75 Released" and "Rust 1.75 Release Notes" are duplicates
\* of each other, "Rust 1.75 Released" and "Python 3.13 Released" are not.
C4_DuplicateRule ==
    dpc = "done" =>
        /\ dResult = TopicDuplicateRule(dTitle, dTopics)
        /\ (dTitle = "Rust 1.75 Release Notes" /\ dTopics = <<"Rust 1.75 Released">> => dResult)
        /\ (dTitle = "Rust 1.75 Released" /\ dTopics = <<"Rust 1.75 Release Notes">> => dResult)
        /\ (dTitle = "Rust 1.75 Released" /\ dTopics = <<"Python 3.13 Released">> => ~dResult)
        /\ (dTitle = "Python 3.13 Released" /\ dTopics = <<"Rust 1.75 Released">> => ~dResult)

\* a candidate exactly on the threshold (2 of 5 significant tokens match) has been judged
C4_Witness ==
    /\ dpc = "done"
    /\ ~dResult
    /\ \E n \in 1..Len(dTopics) :
        /\ Cardinality(SignificantSpans(dTitle)) = 5
        /\ Cardinality(MatchingSpans(dTitle, dTopics[n])) = 2

-----------------------------------------------------------------------------
(* selectWithDiversity on its own: SpecSelect calls it on a list of        *)
(* candidates and a topN                                                   *)

\* bounds of the calls explored
MaxCandidates == 5
MaxSelectN == 3

CandidatePool ==
    { [title |-> "Rust 1.75 Released", category |-> "Backend"],
      [title |-> "Rust 1.75 Release Notes", category |-> "Backend"],
      [title |-> "Python 3.13 Released", category |-> "Backend"],
      [title |-> "Go 1.22", category |-> "Backend"],
      [title |-> "Python 3.13 Released", category |-> "Data"] }

RECURSIVE CandidateLists(_)
CandidateLists(n) ==
    IF n = 0 THEN {<<>>}
    ELSE LET shorter == CandidateLists(n - 1)
         IN  shorter \cup
             { Append(l, [id |-> Len(l) + 1, title |-> c.title, score |-> Num(75),
                          tags |-> <<"tech">>, category |-> c.category, summary |-> "",
                          selected |-> FALSE]) :
                 l \in {x \in shorter : Len(x) = n - 1}, c \in CandidatePool }

InitSelect ==
    /\ analyzed \in CandidateLists(MaxCandidates)
    /\ topN \in 0..MaxSelectN
    /\ articles = <<>>
    /\ oracle = [score |-> <<>>, tags |-> <<>>, summary |-> <<>>]
    /\ pc = "select"
    /\ idx = 1
    /\ candidateCount = Len(analyzed)
    /\ selected = <<>>
    /\ categoryCount = <<>>
    /\ selectedTopics = <<>>
    /\ extracted = {}
    /\ oracleCalls = 0
    /\ retErr = Nil
    /\ IdleDup
    /\ IdleRetry
    /\ IdleRun
    /\ IdleApp

NextSelect == SelectOne \/ EndSelect

SpecSelect == InitSelect /\ [][NextSelect]_vars

-----------------------------------------------------------------------------
(* Claims about selectWithDiversity, under SpecSelect                      *)

\* the selection pass is under way or has returned
Selecting == pc \in {"select", "summarize"}

SelectedIn(category) == {k \in 1..Len(selected) : selected[k].category = category}

\* C1: at every point of the selection pass and in its output no category has
\* more than 2 selected items; when every candidate is in one category at most
\* 2 items are returned, whatever N.
C1_CategoryCap ==
    Selecting =>
        /\ \A k \in 1..Len(selected) : Cardinality(SelectedIn(selected[k].category)) <= 2
        /\ ((\A k \in 1..Len(analyzed) : analyzed[k].category = analyzed[1].category)
               => Len(selected) <= 2)

\* 5 candidates of one category, N = 3, and the pass has returned 2 of them
C1_Witness ==
    /\ pc = "summarize"
    /\ topN = 3
    /\ Len(analyzed) = 5
    /\ \A k \in 1..Len(analyzed) : analyzed[k].category = "Backend"
    /\ Len(selected) = 2

\* C2: the output never holds more than N items, and once N items are accepted
\* the pass examines no further candidate.
C2_AtMostN ==
    /\ [](Selecting => Len(selected) <= topN)
    /\ [][(pc = "select" /\ Len(selected) >= topN) => (pc' # "select" /\ selected' = selected)]_vars

\* N items are accepted while candidates remain
C2_Witness ==
    /\ pc = "select"
    /\ topN >= 1
    /\ Len(selected) = topN
    /\ idx <= Len(analyzed)

\* the topic-duplicate rule on the titles of this model, evaluated once
RuleTable ==
  Table(
    [pair \in SelectTitles \X SelectTitles |-> TopicDuplicateRule(pair[1], <<pair[2]>>)])

\* C3: no selected item is a topic duplicate of an item selected before it: at
\* most 0.4 of its significant tokens match a significant token of the earlier title.
C3_NoDuplicateTopics ==
    Selecting =>
        \A k \in 1..Len(selected) : \A j \in 1..(k - 1) :
            ~RuleTable[<<selected[k].title, selected[j].title>>]

\* a candidate of a category with room was passed over for its title, and a later one taken
C3_Witness ==
    /\ pc = "summarize"
    /\ Len(analyzed) = 3
    /\ analyzed[1].title = "Rust 1.75 Released"
    /\ analyzed[2].title = "Rust 1.75 Release Notes"
    /\ Len(selected) = 2
    /\ selected[2].id = 3

\* the items accepted so far that stand before position i of the candidate list
AcceptedBefore(i) == {k \in 1..Len(selected) : selected[k].id < i}

\* none of the three reasons to pass over the candidate at position i holds when
\* the pass comes to it
Eligible(i) ==
    /\ Cardinality(AcceptedBefore(i)) < topN
    /\ Cardinality({k \in AcceptedBefore(i) : selected[k].category = analyzed[i].category}) < 2
    /\ \A k \in AcceptedBefore(i) : ~RuleTable[<<analyzed[i].title, selected[k].title>>]

\* C31: the output is a subsequence of the candidate list; a candidate the pass
\* has come to is in the output exactly when, at that moment, fewer than N items
\* were accepted, its category had fewer than 2 accepted items and its title was
\* no topic duplicate of an accepted title; every step examines the next
\* candidate only, so a rejected candidate is never taken later.
C31_GreedySubsequence ==
    /\ [](Selecting =>
            /\ \A k \in 1..Len(selected) :
                  /\ selected[k].id \in 1..Len(analyzed)
                  /\ selected[k] = analyzed[selected[k].id]
                  /\ \A j \in 1..(k - 1) : selected[j].id < selected[k].id
            /\ \A i \in 1..(IF pc = "select" THEN idx - 1 ELSE Len(analyzed)) :
                  (\E k \in 1..Len(selected) : selected[k].id = i) <=> Eligible(i))
    /\ [][pc = "select" =>
            \/ selected' = selected
            \/ /\ idx <= Len(analyzed)
               /\ selected' = Append(selected, analyzed[idx])
               /\ idx' = idx + 1]_vars

\* the 2nd candidate was passed over for its topic and the 4th for its category,
\* and the 5th, of the 4th's topic, was accepted after them
C31_Witness ==
    /\ pc = "summarize"
    /\ topN = 3
    /\ Len(analyzed) = 5
    /\ analyzed[2].title = "Rust 1.75 Release Notes"
    /\ analyzed[4].title = analyzed[5].title
    /\ [k \in 1..Len(selected) |-> selected[k].id] = <<1, 3, 5>>

-----------------------------------------------------------------------------
(* retryWithBackoff on its own: SpecRetry calls it with maxRetries = 5 on  *)
(* a closure whose successive invocations return rErrs[1], rErrs[2], ...   *)

FnResults ==
    { Nil,
      "failed to score article: Error 503, Status: RESOURCE_EXHAUSTED",
      "failed to summarize article: Error 429, Too Many Requests",
      "failed to extract tags: connection reset by peer" }

InitRetry ==
    /\ rErrs \in [1..(OracleMaxRetries + 1) -> FnResults]
    /\ rResult = [err |-> Nil, calls |-> 0, log |-> <<>>]
    /\ rpc = "call"
    /\ IdleScore
    /\ IdlePipe
    /\ IdleDup
    /\ IdleRun
    /\ IdleApp

CallRetryWithBackoff ==
    /\ rpc = "call"
    /\ rResult' = retryWithBackoff(OracleMaxRetries, rErrs)
    /\ rpc' = "done"
    /\ UNCHANGED <<rErrs, sScript, sResult>>
    /\ UNCHANGED <<pipeVars, dupVars, runVars, appVars>>

NextRetry == CallRetryWithBackoff

SpecRetry == InitRetry /\ [][NextRetry]_vars

\* C10: with maxRetries = 5 the closure is invoked at most 6 times; the k-th
\* retry follows exactly one sleep, of 1, 2, 4, 8, 16 seconds for k = 1..5; no
\* sleep comes before the first invocation or after the last.
C10_BackoffSchedule ==
    rpc = "done" =>
        LET log == rResult.log
        IN  /\ Cardinality({n \in 1..Len(log) : log[n].ev = "call"}) <= 6
            /\ Len(log) >= 1
            /\ Len(log) % 2 = 1
            /\ \A n \in 1..Len(log) :
                IF n % 2 = 1
                THEN log[n] = [ev |-> "call", arg |-> (n + 1) \div 2]
                ELSE log[n] = [ev |-> "sleep", arg |-> <<1, 2, 4, 8, 16>>[n \div 2]]

\* all 6 invocations were made, with the 5 sleeps between them
C10_Witness ==
    /\ rpc = "done"
    /\ Len(rResult.log) = 11
    /\ rResult.log[10] = [ev |-> "sleep", arg |-> 16]

\* an error text carrying the oracle's overload / rate-limit signal
OverloadSignal(err) == Contains(err, "RESOURCE_EXHAUSTED") \/ Contains(err, "429")

\* the first k invocations fail with the signal
FailsRetryably(k) == \A i \in 1..k : rErrs[i] # Nil /\ OverloadSignal(rErrs[i])

Sleeps(log) == Cardinality({n \in 1..Len(log) : log[n].ev = "sleep"})
Invocations(log) == Cardinality({n \in 1..Len(log) : log[n].ev = "call"})

\* C11: a call that fails k times (0 <= k <= 5) with a retryable signal and then
\* succeeds returns nil after exactly k + 1 invocations and exactly k backoff
\* sleeps, and the caller gets the successful reply's value (scoreArticle on k
\* overload replies followed by "8.5" returns 8.5 with no error).
C11_RetryThenSuccess ==
    rpc = "done" =>
        \A k \in 0..OracleMaxRetries :
            (FailsRetryably(k) /\ rErrs[k + 1] = Nil) =>
                /\ rResult.err = Nil
                /\ rResult.calls = k + 1
                /\ Invocations(rResult.log) = k + 1
                /\ Sleeps(rResult.log) = k
                /\ scoreArticle(Busy(k) \o <<Answer("8.5")>>)
                       = [score |-> Num(85), err |-> Nil, calls |-> k + 1]

\* two retryable failures, then a success on the third attempt
C11_Witness ==
    /\ rpc = "done"
    /\ FailsRetryably(2) /\ rErrs[3] = Nil
    /\ rResult.err = Nil
    /\ Sleeps(rResult.log) = 2

\* C12: when the j-th invocation is the first to fail with an error that carries
\* neither RESOURCE_EXHAUSTED nor 429, retryWithBackoff returns that very error;
\* the j-th invocation is the last event: no sleep and no invocation follows it.
C12_NonTransientReturnsAtOnce ==
    rpc = "done" =>
        \A j \in 1..(OracleMaxRetries + 1) :
            (FailsRetryably(j - 1) /\ rErrs[j] # Nil /\ ~OverloadSignal(rErrs[j])) =>
                /\ rResult.err = rErrs[j]
                /\ rResult.calls = j
                /\ Len(rResult.log) = 2 * j - 1
                /\ rResult.log[Len(rResult.log)] = [ev |-> "call", arg |-> j]

\* a rate-limit failure, then a connection error on the second attempt
C12_Witness ==
    /\ rpc = "done"
    /\ FailsRetryably(1)
    /\ rErrs[2] = "failed to extract tags: connection reset by peer"
    /\ rResult.err = rErrs[2]
    /\ rResult.calls = 2

\* C33: when all 6 invocations fail with a retryable signal, retryWithBackoff
\* returns a non-nil error whose text carries the 6th invocation's error; it
\* returns nil exactly when one of the invocations it made succeeded, and a
\* successful invocation is always the last one made.
C33_ExhaustedCarriesLastError ==
    rpc = "done" =>
        /\ FailsRetryably(OracleMaxRetries + 1) =>
              /\ rResult.err # Nil
              /\ Contains(rResult.err, rErrs[OracleMaxRetries + 1])
              /\ rResult.calls = OracleMaxRetries + 1
        /\ rResult.err = Nil <=> \E j \in 1..rResult.calls : rErrs[j] = Nil
        /\ \A j \in 1..rResult.calls : rErrs[j] = Nil => j = rResult.calls
        /\ Invocations(rResult.log) = rResult.calls

\* five overload failures and a rate-limit failure on the last attempt
C33_Witness ==
    /\ rpc = "done"
    /\ FailsRetryably(OracleMaxRetries + 1)
    /\ rErrs[OracleMaxRetries] # rErrs[OracleMaxRetries + 1]
    /\ rResult.err = "max retries exceeded: " \o rErrs[OracleMaxRetries + 1]

-----------------------------------------------------------------------------
(* scoreArticle on its own: SpecScore calls it with an oracle whose        *)
(* successive replies to the scoring prompt are sScript[1], sScript[2], ... *)

\* what the oracle may reply to one scoring prompt
ScoreReplies ==
    { Answer(" 7.5\n"), Answer("Great article!"),
      Answer("8 - covers HTTP 429 handling"), Overloaded }

InitScore ==
    /\ sScript \in [1..(OracleMaxRetries + 1) -> ScoreReplies]
    /\ sResult = NotScored
    /\ rErrs = [n \in DOMAIN sScript |-> ScoreFnErr(sScript[n])]
    /\ rResult = [err |-> Nil, calls |-> 0, log |-> <<>>]
    /\ rpc = "score"
    /\ IdlePipe
    /\ IdleDup
    /\ IdleRun
    /\ IdleApp

\* rResult keeps what the call of retryWithBackoff at line 171 did
CallScoreArticle ==
    /\ rpc = "score"
    /\ sResult' = scoreArticle(sScript)
    /\ rResult' = retryWithBackoff(OracleMaxRetries, rErrs)
    /\ rpc' = "done"
    /\ UNCHANGED <<rErrs, sScript>>
    /\ UNCHANGED <<pipeVars, dupVars, runVars, appVars>>

NextScore == CallScoreArticle

SpecScore == InitScore /\ [][NextScore]_vars

\* the reply is a text that strconv.ParseFloat rejects
Unparsable(reply) == reply.apiErr = Nil /\ ~ParseFloat(TrimSpace(reply.text)).ok

\* C32: a scoring reply that does not parse as a number ends scoreArticle at
\* once, whatever its text: when the j-th reply is the first one that is not an
\* overload failure and it does not parse, scoreArticle has made exactly j oracle
\* calls (one when j = 1), no sleep follows the reply, and the score is 0.
C32_UnparsableIsNotRetried ==
    rpc = "done" /\ sScript # <<>> =>
        \A j \in DOMAIN sScript :
            ((\A i \in 1..(j - 1) : sScript[i] = Overloaded) /\ Unparsable(sScript[j])) =>
                /\ sResult.calls = j
                /\ Invocations(rResult.log) = j
                /\ Sleeps(rResult.log) = j - 1
                /\ sResult.err # Nil
                /\ sResult.score = Num(0)

-----------------------------------------------------------------------------
(* SelectAndSummarize on a feed larger than 3 * topN whose leading titles  *)
(* repeat one topic, with an oracle that answers as asked: SpecWide        *)

\* bound of the runs explored
WideTopN == 2

WideTitles ==
    <<"Rust 1.75 Released", "Rust 1.75 Release Notes", "Rust 1.75 Released",
      "Rust 1.75 Release Notes", "Rust 1.75 Released", "Rust 1.75 Release Notes", "Go 1.22">>

InitWide ==
    /\ articles = [k \in 1..Len(WideTitles) |-> [id |-> k, title |-> WideTitles[k]]]
    /\ topN \in 0..WideTopN
    /\ oracle = NominalOracle
    /\ pc = "start"
    /\ analyzed = <<>>
    /\ idx = 0
    /\ candidateCount = 0
    /\ selected = <<>>
    /\ categoryCount = <<>>
    /\ selectedTopics = <<>>
    /\ extracted = {}
    /\ oracleCalls = 0
    /\ retErr = Nil
    /\ IdleDup
    /\ IdleRetry
    /\ IdleRun
    /\ IdleApp

SpecWide == InitWide /\ [][Next]_vars

-----------------------------------------------------------------------------
(* Claims about SelectAndSummarize                                         *)

Scored == pc \in {"score", "extract", "select", "summarize", "done"}
Sorted == pc \in {"extract", "select", "summarize", "done"}
Extracted == pc \in {"select", "summarize", "done"}
Returned == pc \in {"summarize", "done"}

InRange(f) == ~f.nan /\ 0 <= f.v /\ f.v <= 100

\* a >= b on float64
FloatGE(a, b) == ~a.nan /\ ~b.nan /\ a.v >= b.v

\* C5: every RelevanceScore the scorer attaches lies in [0, 10], whatever the
\* oracle returns, and is 0 when the scoring call fails or its response does not parse.
C5_ScoreInRange ==
    /\ Scored => \A k \in 1..Len(analyzed) : InRange(analyzed[k].score)
    /\ \A s \in DOMAIN ScoreTable : ScoreTable[s].err # Nil => ScoreTable[s].score = Num(0)

\* C6: after scoring the list is in descending order of score with equal scores
\* in their input order, and so is the final selection.
C6_SortedStable ==
    /\ Sorted =>
         \A j, k \in 1..Len(analyzed) :
             j < k => \/ FloatGT(analyzed[j].score, analyzed[k].score)
                      \/ (analyzed[j].score = analyzed[k].score /\ analyzed[j].id < analyzed[k].id)
    /\ Returned =>
         \A j, k \in 1..Len(selected) :
             j < k => \/ FloatGT(selected[j].score, selected[k].score)
                      \/ (selected[j].score = selected[k].score /\ selected[j].id < selected[k].id)

\* C7: every item the selector returns is one extraction was run for, and so
\* carries a non-empty category and a non-empty tag list.
C7_SelectedWereExtracted ==
    Returned =>
        \A k \in 1..Len(selected) :
            /\ selected[k].id \in extracted
            /\ selected[k].category # ""
            /\ Len(selected[k].tags) > 0

\* C8: after the extraction stage every item of the extracted subset has a
\* non-empty category and a non-empty tag list, the defaults standing in for
\* what a response lacks and for a call that failed.
C8_ExtractionDefaults ==
    Extracted =>
        \A k \in 1..candidateCount :
            /\ analyzed[k].category # ""
            /\ Len(analyzed[k].tags) > 0

\* C9: extraction is called for exactly the first min(3N, M) items of the
\* sorted list, and each of them scores at least as high as every other item.
C9_ExtractsTheBest ==
    Extracted =>
        /\ extracted = {analyzed[k].id : k \in 1..Min(3 * topN, Len(analyzed))}
        /\ \A j, k \in 1..Len(analyzed) :
               (analyzed[j].id \in extracted /\ analyzed[k].id \notin extracted)
                   => FloatGE(analyzed[j].score, analyzed[k].score)

-----------------------------------------------------------------------------
(* main (main.go), FetchAll (feeds/sources.go) and the oracle traffic of   *)
(* SelectAndSummarize.  An article is [link, published, source];           *)
(* published counts hours from the moment main computes its cutoff         *)
(* (line 85), so -25 is 25 hours earlier.  The clock `now` of the Analyzer *)
(* counts seconds.                                                         *)

\* time.Time{}: January 1 of year 1, in hours before the run
ZeroTime == 0 - 17750000

\* main.go line 20
topArticlesCount == 8

\* fetchSingle, lines 215-248: the i-th feed's items, with the feed as Source
fetchSingle(i) ==
    [err |-> web[i].err,
     articles |-> [k \in 1..Len(web[i].items) |->
                      [title |-> web[i].items[k].title,
                       link |-> web[i].items[k].link,
                       published |-> web[i].items[k].published,
                       source |-> feedURLs[i]]]]

\* sync.WaitGroup: Wait returns when every goroutine has called Done
WaitSkipped(t) == TRUE
WaitForever(t) == FALSE
WaitGroupZero(t) == \A i \in DOMAIN t : t[i] = "done"

\* what a single receive from articlesChan gives
FirstBatchOnly(chan) == IF chan = <<>> THEN <<>> ELSE Head(chan)

\* lines 189-191: the batches received from articlesChan, appended in order
RECURSIVE Collected(_)
Collected(chan) == IF chan = <<>> THEN <<>> ELSE Head(chan) \o Collected(Tail(chan))

\* deduplicateArticles, lines 251-263, from position k on
RECURSIVE DedupFrom(_, _, _, _)
DedupFrom(list, k, seen, unique) ==
    IF k > Len(list) THEN unique
    ELSE IF list[k].link \in seen
         THEN DedupFrom(list, k + 1, seen, unique)
         ELSE DedupFrom(list, k + 1, seen \cup {list[k].link}, Append(unique, list[k]))

KeepAll(list) == list
deduplicateArticles(list) == DedupFrom(list, 1, {}, <<>>)

\* one iteration of the loop of lines 169-181: the goroutine is started
Spawn ==
    /\ mpc = "fetchAll"
    /\ \E i \in DOMAIN task :
        /\ task[i] = "none"
        /\ \A j \in 1..(i - 1) : task[j] # "none"
        /\ task' = [task EXCEPT ![i] = "running"]
    /\ UNCHANGED <<feedURLs, web, articlesChan, errorsChan, mpc, mainArticles, fetchErr,
                   history, recentArticleURLs, now, rateLimitDelay, lastRequestTime, jitter,
                   overloadsLeft, aPhase, aLeft, attemptNo, opc, inFlight, prevStart,
                   lastStart, requested>>
    /\ UNCHANGED <<pipeVars, dupVars, retryVars, appVars>>

\* lines 166-167: the capacity both channels are made with
Unbuffered(urls) == 0
ChanCap(urls) == Len(urls)

\* lines 176 and 179: a send on a buffered channel, which waits while the buffer is full
Dropped(chan, msg) == chan
Sent(chan, msg) == Append(chan, msg)

\* the goroutine of lines 171-180: fetchSingle returns, its result is sent
TaskFinish ==
    /\ \E i \in DOMAIN task :
        /\ task[i] = "running"
        /\ LET r == fetchSingle(i)
           IN  IF r.err # Nil
               THEN /\ Len(errorsChan) < ChanCap(feedURLs)
                    /\ errorsChan' = Sent(errorsChan,
                           "error fetching " \o feedURLs[i] \o ": " \o r.err)
                    /\ UNCHANGED articlesChan
               ELSE /\ Len(articlesChan) < ChanCap(feedURLs)
                    /\ articlesChan' = Sent(articlesChan, r.articles)
                    /\ UNCHANGED errorsChan
        /\ task' = [task EXCEPT ![i] = "done"]
    /\ UNCHANGED <<feedURLs, web, mpc, mainArticles, fetchErr,
                   history, recentArticleURLs, now, rateLimitDelay, lastRequestTime, jitter,
                   overloadsLeft, aPhase, aLeft, attemptNo, opc, inFlight, prevStart,
                   lastStart, requested>>
    /\ UNCHANGED <<pipeVars, dupVars, retryVars, appVars>>

\* lines 183-211, and main's line 73
Collect ==
    /\ mpc = "fetchAll"
    /\ \A i \in DOMAIN task : task[i] # "none"
    /\ WaitGroupZero(task)
    /\ LET allArticles == Collected(articlesChan)
       IN  IF Len(errorsChan) > 0 /\ Len(allArticles) = 0
           THEN /\ fetchErr' = "all feeds failed"
                /\ mainArticles' = <<>>
                /\ fetched' = <<>>
           ELSE /\ fetchErr' = Nil
                /\ mainArticles' = deduplicateArticles(allArticles)
                /\ fetched' = mainArticles'
    /\ mpc' = "fetched"
    /\ UNCHANGED <<feedURLs, web, task, articlesChan, errorsChan,
                   history, recentArticleURLs, now, rateLimitDelay, lastRequestTime, jitter,
                   overloadsLeft, aPhase, aLeft, attemptNo, opc, inFlight, prevStart,
                   lastStart, requested>>
    /\ UNCHANGED <<users, sources, dryRun, emailsSent, userEmails, sends, mIdx, runsLeft,
                   seedQueue, seedStats>>
    /\ UNCHANGED <<pipeVars, dupVars, retryVars>>

\* main.go lines 74-82
CheckFetched ==
    /\ mpc = "fetched"
    /\ mpc' = IF fetchErr # Nil THEN "fatal"
              ELSE IF Len(mainArticles) = 0 THEN "exit" ELSE "recency"
    /\ UNCHANGED <<feedURLs, web, task, articlesChan, errorsChan, mainArticles, fetchErr,
                   history, recentArticleURLs, now, rateLimitDelay, lastRequestTime, jitter,
                   overloadsLeft, aPhase, aLeft, attemptNo, opc, inFlight, prevStart,
                   lastStart, requested>>
    /\ UNCHANGED <<pipeVars, dupVars, retryVars, appVars>>

\* time.Time.After and IsZero
NotBefore(t, u) == t >= u

After(t, u) == t > u

IsZero(t) == t = ZeroTime

\* the 24-hour window of line 85, in hours
RecencyWindow == 24

\* the loop of lines 87-91 from position k on
RECURSIVE RecentFrom(_, _, _, _)
RecentFrom(list, k, cutoff, recentArticles) ==
    IF k > Len(list) THEN recentArticles
    ELSE RecentFrom(list, k + 1, cutoff,
             IF After(list[k].published, cutoff) \/ IsZero(list[k].published)
             THEN Append(recentArticles, list[k])
             ELSE recentArticles)

\* main.go lines 84-98
RecencyFilter ==
    /\ mpc = "recency"
    /\ mainArticles' = RecentFrom(mainArticles, 1, 0 - RecencyWindow, <<>>)
    /\ mpc' = IF Len(mainArticles') = 0 THEN "exit" ELSE "history"
    /\ UNCHANGED <<feedURLs, web, task, articlesChan, errorsChan, fetchErr,
                   history, recentArticleURLs, now, rateLimitDelay, lastRequestTime, jitter,
                   overloadsLeft, aPhase, aLeft, attemptNo, opc, inFlight, prevStart,
                   lastStart, requested>>
    /\ UNCHANGED <<pipeVars, dupVars, retryVars, appVars>>

\* the days main asks GetRecentArticleURLs for, line 101
HistoryDays == 30

\* GetRecentEmailArticles and GetRecentArticleURLs: the URLs of the rows created
\* after the cutoff of `days` days ago (a row's age is in days)
GetRecentArticleURLs(rows, days) == {row.url : row \in {r \in rows : r.age < days}}

\* line 104: the map main goes on with when the lookup fails
URLsOnFailureStale == {"https://a.example/1"}
URLsOnFailure == {}

\* line 109
InHistoryNever(urls, link) == FALSE
InHistory(urls, link) == link \in urls

\* the loop of lines 108-112 from position k on
RECURSIVE NewFrom(_, _, _, _)
NewFrom(list, k, urls, newArticles) ==
    IF k > Len(list) THEN newArticles
    ELSE NewFrom(list, k + 1, urls,
             IF ~InHistory(urls, list[k].link) THEN Append(newArticles, list[k])
             ELSE newArticles)

\* main.go line 120
NeverNothingNew(list) == FALSE
NothingNew(list) == Len(list) = 0

\* main.go lines 100-123
HistoryFilter ==
    /\ mpc = "history"
    /\ recentArticleURLs' = IF history.fails THEN URLsOnFailure
                            ELSE GetRecentArticleURLs(history.rows, HistoryDays)
    /\ mainArticles' = NewFrom(mainArticles, 1, recentArticleURLs', <<>>)
    /\ mpc' = IF NothingNew(mainArticles') THEN "exit" ELSE "analyze"
    /\ UNCHANGED <<feedURLs, web, task, articlesChan, errorsChan, fetchErr,
                   history, now, rateLimitDelay, lastRequestTime, jitter,
                   overloadsLeft, aPhase, aLeft, attemptNo, opc, inFlight, prevStart,
                   lastStart, requested>>
    /\ UNCHANGED <<pipeVars, dupVars, retryVars, appVars>>

\* main.go lines 138-144 and analyzer.go lines 24-38, 82-89: the Analyzer is made
\* (or main stops because it cannot be) and SelectAndSummarize enters its
\* scoring loop
NewAnalyzer ==
    /\ mpc = "analyze"
    /\ \/ /\ mpc' = "fatal"
          /\ UNCHANGED <<lastRequestTime, aPhase, aLeft, attemptNo, opc>>
       \/ /\ mpc' = "select"
          /\ lastRequestTime' = now
          /\ aPhase' = "score"
          /\ aLeft' = Len(mainArticles)
          /\ attemptNo' = 0
          /\ opc' = "attempt"
    /\ UNCHANGED <<feedURLs, web, task, articlesChan, errorsChan, mainArticles, fetchErr,
                   history, recentArticleURLs, now, rateLimitDelay, jitter,
                   overloadsLeft, inFlight, prevStart, lastStart, requested>>
    /\ UNCHANGED <<pipeVars, dupVars, retryVars, appVars>>

\* time.Sleep(d) returns after at least d
SleepOutcomes(t, d) == IF d > 0 THEN (t + d)..(t + d + jitter) ELSE {t}

\* retryWithBackoff lines 57-63: the top of one attempt
StartAttempt ==
    /\ mpc = "select"
    /\ opc = "attempt"
    /\ aLeft > 0
    /\ now' \in SleepOutcomes(now, IF attemptNo > 0 THEN Backoff(attemptNo) ELSE 0)
    /\ opc' = "limit"
    /\ UNCHANGED <<feedURLs, web, task, articlesChan, errorsChan, mpc, mainArticles, fetchErr,
                   history, recentArticleURLs, rateLimitDelay, lastRequestTime, jitter,
                   overloadsLeft, aPhase, aLeft, attemptNo, inFlight, prevStart,
                   lastStart, requested>>
    /\ UNCHANGED <<pipeVars, dupVars, retryVars, appVars>>

\* rateLimit lines 47-50: what it passes to time.Sleep
NoDelay(d, elapsed) == 0
RemainingDelay(d, elapsed) == IF elapsed < d THEN d - elapsed ELSE 0

\* the closure's first two statements (lines 173-176 and their like): rateLimit
\* runs, then GenerateContent is entered; the call starts at the instant
\* rateLimit stamps
StartCall ==
    /\ mpc = "select"
    /\ opc = "limit"
    /\ requested' = RemainingDelay(rateLimitDelay, now - lastRequestTime)
    /\ now' \in SleepOutcomes(now, requested')
    /\ lastRequestTime' = now'
    /\ prevStart' = lastStart
    /\ lastStart' = now'
    /\ inFlight' = inFlight + 1
    /\ opc' = "flight"
    /\ UNCHANGED <<feedURLs, web, task, articlesChan, errorsChan, mpc, mainArticles, fetchErr,
                   history, recentArticleURLs, rateLimitDelay, jitter,
                   overloadsLeft, aPhase, aLeft, attemptNo>>
    /\ UNCHANGED <<pipeVars, dupVars, retryVars, appVars>>

\* GenerateContent returns and retryWithBackoff (lines 65-77) decides: the
\* closure succeeded, failed for good, or met an overload signal
EndCall ==
    /\ mpc = "select"
    /\ opc = "flight"
    /\ now' \in now..(now + jitter)
    /\ inFlight' = inFlight - 1
    /\ opc' = "attempt"
    /\ \/ /\ attemptNo' = 0
          /\ aLeft' = aLeft - 1
          /\ UNCHANGED overloadsLeft
       \/ /\ overloadsLeft > 0
          /\ overloadsLeft' = overloadsLeft - 1
          /\ IF attemptNo + 1 <= OracleMaxRetries
             THEN attemptNo' = attemptNo + 1 /\ UNCHANGED aLeft
             ELSE attemptNo' = 0 /\ aLeft' = aLeft - 1
    /\ UNCHANGED <<feedURLs, web, task, articlesChan, errorsChan, mpc, mainArticles, fetchErr,
                   history, recentArticleURLs, rateLimitDelay, lastRequestTime, jitter,
                   aPhase, prevStart, lastStart, requested>>
    /\ UNCHANGED <<pipeVars, dupVars, retryVars, appVars>>

\* SelectAndSummarize goes from one loop to the next (lines 105-116, 130-140)
\* and returns to main (lines 152, 148).  The summarizing loop runs once per
\* selected article: at least one, at most topN.
NextLoop ==
    /\ mpc = "select"
    /\ opc = "attempt"
    /\ aLeft = 0
    /\ \/ /\ aPhase = "score"
          /\ aPhase' = "tags"
          /\ aLeft' = CandidateCount(topArticlesCount, Len(mainArticles))
          /\ UNCHANGED mpc
       \/ /\ aPhase = "tags"
          /\ aPhase' = "summary"
          /\ aLeft' \in 1..Min(topArticlesCount, Len(mainArticles))
          /\ UNCHANGED mpc
       \/ /\ aPhase = "summary"
          /\ aPhase' = "returned"
          /\ mpc' = "selected"
          /\ UNCHANGED aLeft
    /\ UNCHANGED <<feedURLs, web, task, articlesChan, errorsChan, mainArticles, fetchErr,
                   history, recentArticleURLs, now, rateLimitDelay, lastRequestTime, jitter,
                   overloadsLeft, attemptNo, opc, inFlight, prevStart, lastStart, requested>>
    /\ UNCHANGED <<pipeVars, dupVars, retryVars, appVars>>

\* bounds of the runs explored
MaxFeeds == 2
MainOverloads == 1

FeedURL(i) == <<"https://a.example/rss", "https://b.example/rss", "https://c.example/rss",
               "https://d.example/rss">>[i]

\* the title an item is published under, by its link
TitleAt(link) ==
    CASE link = "https://a.example/1" -> FeedTitles[1]
      [] link = "https://b.example/1" -> FeedTitles[2]
      [] link = "https://c.example/1" -> FeedTitles[3]
      [] OTHER -> FeedTitles[4]

Item(link, published) == [title |-> TitleAt(link), link |-> link, published |-> published]

\* what a feed may return: an error, no items, or items whose links and
\* publication times overlap those of other feeds
SourceResults ==
    { [err |-> "context deadline exceeded", items |-> <<>>],
      [err |-> Nil, items |-> <<>>],
      [err |-> Nil, items |-> <<Item("https://a.example/1", 0 - 1),
                                Item("https://b.example/1", 0 - 25)>>],
      [err |-> Nil, items |-> <<Item("https://a.example/1", ZeroTime),
                                Item("https://c.example/1", 0 - RecencyWindow)>>],
      [err |-> Nil, items |-> <<Item("https://c.example/1", 0 - 23),
                                Item("https://a.example/1", 0 - 1),
                                Item("https://c.example/1", 1)>>] }

\* the email_articles table, and whether the query on it fails
\* a row of email_articles: the link, its age in days, the email it belongs to
EmailArticle(email, url, age) == [url |-> url, age |-> age, email |-> email]

\* a row written for a digest sent before the model starts
HistoryRow(url, age) == EmailArticle(0, url, age)
Histories ==
    { [fails |-> TRUE, rows |-> {HistoryRow("https://a.example/1", 1)}],
      [fails |-> FALSE, rows |-> {}],
      [fails |-> FALSE, rows |-> {HistoryRow("https://a.example/1", 1),
                                  HistoryRow("https://c.example/1", HistoryDays)}],
      [fails |-> FALSE, rows |-> {HistoryRow("https://c.example/1", 29),
                                  HistoryRow("https://a.example/1", 31),
                                  HistoryRow("https://d.example/1", 2)}] }

InitMain ==
    /\ \E n \in 0..MaxFeeds :
        /\ feedURLs = [i \in 1..n |-> FeedURL(i)]
        /\ web \in [1..n -> SourceResults]
        /\ task = [i \in 1..n |-> "none"]
    /\ articlesChan = <<>>
    /\ errorsChan = <<>>
    /\ mpc = "fetchAll"
    /\ mainArticles = <<>>
    /\ fetchErr = Nil
    /\ history \in Histories
    /\ recentArticleURLs = {}
    /\ now = 0 /\ rateLimitDelay = 0 /\ lastRequestTime = 0 /\ jitter = 0
    /\ overloadsLeft = MainOverloads
    /\ aPhase = "none" /\ aLeft = 0 /\ attemptNo = 0 /\ opc = "idle"
    /\ inFlight = 0 /\ prevStart = Never /\ lastStart = Never /\ requested = 0
    /\ IdlePipe
    /\ IdleDup
    /\ IdleRetry
    /\ IdleApp

NextMain ==
    \/ Spawn
    \/ TaskFinish
    \/ Collect
    \/ CheckFetched
    \/ RecencyFilter
    \/ HistoryFilter
    \/ NewAnalyzer
    \/ StartAttempt
    \/ StartCall
    \/ EndCall
    \/ NextLoop

SpecMain == InitMain /\ [][NextMain]_vars

-----------------------------------------------------------------------------
(* The Analyzer's oracle traffic against the clock: SpecRate starts where  *)
(* main makes the Analyzer, with sleeps that may overrun and calls that    *)
(* take time.                                                              *)

MaxRateArticles == 2
MaxDelay == 3
MaxJitter == 1
MaxOverloads == 3

RateArticles(n) ==
    [k \in 1..n |-> [link |-> FeedURL(k), published |-> 0 - k, source |-> FeedURL(1)]]

InitRate ==
    /\ feedURLs = <<>> /\ web = <<>> /\ task = <<>>
    /\ articlesChan = <<>> /\ errorsChan = <<>>
    /\ mpc = "analyze"
    /\ \E n \in 1..MaxRateArticles : mainArticles = RateArticles(n)
    /\ fetchErr = Nil
    /\ history = [fails |-> FALSE, rows |-> {}]
    /\ recentArticleURLs = {}
    /\ now = 0
    /\ rateLimitDelay \in 0..MaxDelay
    /\ lastRequestTime = 0
    /\ jitter = MaxJitter
    /\ overloadsLeft = MaxOverloads
    /\ aPhase = "none" /\ aLeft = 0 /\ attemptNo = 0 /\ opc = "idle"
    /\ inFlight = 0 /\ prevStart = Never /\ lastStart = Never /\ requested = 0
    /\ IdlePipe
    /\ IdleDup
    /\ IdleRetry
    /\ IdleApp

NextRate ==
    \/ NewAnalyzer
    \/ StartAttempt
    \/ StartCall
    \/ EndCall
    \/ NextLoop

SpecRate == InitRate /\ [][NextRate]_vars

-----------------------------------------------------------------------------
(* Claims about the Analyzer's rate limiter, under SpecRate                *)

\* C13: with a minimum interval d >= 0, any two consecutive oracle calls of one
\* Analyzer (scoring, tagging, summarizing, retries included) start at least d
\* apart; rateLimit asks time.Sleep for exactly the part of d that has not yet
\* passed since lastRequestTime (nothing when d has passed), returns no earlier
\* than that, and sets lastRequestTime to the time it returns.
C13_MinimumSpacing ==
    /\ [](prevStart # Never => lastStart - prevStart >= rateLimitDelay)
    /\ [][(opc = "limit" /\ opc' = "flight") =>
            /\ requested' = (IF now - lastRequestTime < rateLimitDelay
                             THEN rateLimitDelay - (now - lastRequestTime)
                             ELSE 0)
            /\ now' >= now + requested'
            /\ lastRequestTime' = now'
            /\ lastStart' = now']_vars

\* a retry whose 1-second backoff covers part of a 3-second interval: rateLimit
\* sleeps the other 2 seconds, and the tagging call starts exactly 3 seconds
\* after the one before it
C13_Witness ==
    /\ opc = "flight"
    /\ aPhase = "tags"
    /\ attemptNo = 1
    /\ rateLimitDelay = 3
    /\ requested = 2
    /\ lastStart - prevStart = 3

-----------------------------------------------------------------------------
(* Claims about main and FetchAll, under SpecMain                          *)

FetchRunning == \E i \in DOMAIN task : task[i] = "running"

\* C14: at most one oracle call is in flight at any time; no oracle call is in
\* flight while a fetch goroutine runs; and while the Analyzer exists (the only
\* holder of lastRequestTime) main is the only thread left, every fetch
\* goroutine having finished.
C14_OneCallAtATime ==
    /\ inFlight <= 1
    /\ inFlight = 1 => ~FetchRunning
    /\ mpc \in {"analyze", "select"} => \A i \in DOMAIN task : task[i] = "done"

\* a tagging call in flight in a run that fetched two feeds
C14_Witness ==
    /\ inFlight = 1
    /\ aPhase = "tags"
    /\ Len(feedURLs) = 2
    /\ \A i \in DOMAIN task : task[i] = "done"

LinksOf(list) == {list[k].link : k \in DOMAIN list}
UniqueLinks(list) == \A j, k \in DOMAIN list : j # k => list[j].link # list[k].link

\* C15: the list FetchAll returns holds no two articles with one Link, and
\* holds an article for every Link a successful source produced; after the
\* recency and the history filter the links are still unique.
C15_UniqueLinks ==
    /\ UniqueLinks(mainArticles)
    /\ (mpc = "fetched" /\ fetchErr = Nil) =>
           \A i \in DOMAIN web : web[i].err = Nil =>
               \A k \in DOMAIN web[i].items :
                   web[i].items[k].link \in LinksOf(mainArticles)

\* two feeds carried the same link and two articles reached the history filter
C15_Witness ==
    /\ mpc = "history"
    /\ Len(mainArticles) = 2
    /\ \E i, j \in DOMAIN web :
          /\ i # j
          /\ \E k \in DOMAIN web[i].items, l \in DOMAIN web[j].items :
                web[i].items[k].link = web[j].items[l].link

\* C16: given at least one feed, FetchAll returns an error if and only if every
\* source fails; when some source succeeds, however many items it yields,
\* FetchAll returns the deduplicated union of the successful sources' items and
\* no error.
C16_ErrorIffAllFail ==
    (mpc = "fetched" /\ Len(feedURLs) > 0) =>
        /\ (fetchErr # Nil) <=> (\A i \in DOMAIN web : web[i].err # Nil)
        /\ (\E i \in DOMAIN web : web[i].err = Nil) =>
               /\ fetchErr = Nil
               /\ UniqueLinks(mainArticles)
               /\ \A i \in DOMAIN web : web[i].err = Nil =>
                      \A k \in DOMAIN web[i].items :
                          web[i].items[k].link \in LinksOf(mainArticles)

KeptByWindow(a) == a.published > 0 - 24 \/ a.published = ZeroTime

\* C17: the recency filter keeps an item if and only if it was published after
\* now - 24h or has no published time; the kept items keep their order and
\* their fields.
C17_RecencyFilter ==
    [][mpc = "recency" => mainArticles' = SelectSeq(mainArticles, KeptByWindow)]_vars

\* of an item published 1h ago, one 25h ago, one with no time and one exactly
\* 24h ago, the filter let through the first or the third only
C17_Witness ==
    /\ mpc = "history"
    /\ \E i, j \in DOMAIN web :
          /\ \E k \in DOMAIN web[i].items : web[i].items[k].published = 0 - 25
          /\ \E k \in DOMAIN web[j].items : web[j].items[k].published = 0 - 24
    /\ Len(mainArticles) = 1
    /\ mainArticles[1].published \in {0 - 1, ZeroTime}

RecordedLinks == {row.url : row \in {r \in history.rows : r.age < 30}}
NotRecorded(a) == a.link \notin RecordedLinks

\* C18: when the history lookup succeeds, the history filter leaves exactly the
\* items whose link is not among the links recorded in the last 30 days, in
\* their order and unchanged; no item that goes on to analysis has a recorded
\* link.
C18_HistoryFilter ==
    /\ [][(mpc = "history" /\ ~history.fails) =>
              mainArticles' = SelectSeq(mainArticles, NotRecorded)]_vars
    /\ []((mpc \in {"analyze", "select", "selected"} /\ ~history.fails) =>
              \A k \in DOMAIN mainArticles : NotRecorded(mainArticles[k]))

\* a link fetched and recent enough was recorded 29 days ago: it is gone, and
\* another item goes on to analysis
C18_Witness ==
    /\ mpc = "analyze"
    /\ ~history.fails
    /\ "https://c.example/1" \in RecordedLinks
    /\ \E i \in DOMAIN web : \E k \in DOMAIN web[i].items :
          web[i].items[k] = Item("https://c.example/1", 0 - 23)
    /\ LinksOf(mainArticles) = {"https://a.example/1"}

\* C19: when the history lookup fails the run goes on: the filter excludes
\* nothing, every item passes unchanged, and main proceeds to the analysis.
C19_LookupFailureIsNoOp ==
    [][(mpc = "history" /\ history.fails) =>
           /\ recentArticleURLs' = {}
           /\ mainArticles' = mainArticles
           /\ mpc' = "analyze"]_vars

\* the lookup failed, a link that is in the table passed, and a scoring call
\* is in flight
C19_Witness ==
    /\ history.fails
    /\ mpc = "select"
    /\ aPhase = "score"
    /\ inFlight = 1
    /\ \E row \in history.rows : row.url \in LinksOf(mainArticles)

\* the number of goroutines in state st
TasksIn(st) == Cardinality({i \in DOMAIN task : task[i] = st})

\* C35: FetchAll starts one goroutine per feed URL, each once, and merges only
\* when every goroutine has finished; what it returns holds every item's link of
\* every source that succeeded, whatever the order in which the goroutines
\* finished and whichever other sources failed.
C35_MergeAfterAllTasks ==
    /\ [](DOMAIN task = DOMAIN feedURLs)
    /\ [][/\ \A i \in DOMAIN task :
              /\ task[i] = "running" => task'[i] \in {"running", "done"}
              /\ task[i] = "done" => task'[i] = "done"
           /\ (mpc = "fetchAll" /\ mpc' # "fetchAll") => TasksIn("done") = Len(feedURLs)]_vars
    /\ [](mpc = "fetched" =>
            \A i \in DOMAIN web : web[i].err = Nil =>
                \A k \in DOMAIN web[i].items :
                    \E a \in DOMAIN fetched : fetched[a].link = web[i].items[k].link)

\* the second feed's goroutine finished first, both feeds gave items, and the
\* result holds the links of both
C35_Witness ==
    /\ mpc = "fetched"
    /\ Len(feedURLs) = 2
    /\ Len(articlesChan) = 2
    /\ articlesChan[1] # <<>> /\ articlesChan[1][1].source = feedURLs[2]
    /\ articlesChan[2] # <<>>
    /\ LinksOf(fetched) = {"https://a.example/1", "https://b.example/1", "https://c.example/1"}

\* C37: every goroutine sends one message, to one of the two channels; a
\* running goroutine always finds room in the channel it sends to, as both hold
\* as many messages as there are feeds; no message is sent once FetchAll has
\* gone past wg.Wait and closed the channels, FetchAll never waits forever, and
\* when it has closed them they hold as many messages as there are feeds.
C37_OneSendPerTask ==
    /\ [](/\ Len(errorsChan) + Len(articlesChan) = TasksIn("done")
          /\ (\E i \in DOMAIN task : task[i] = "running") =>
                 /\ Len(errorsChan) < Len(feedURLs)
                 /\ Len(articlesChan) < Len(feedURLs)
          /\ mpc = "fetchAll" =>
                 \/ \E i \in DOMAIN task : task[i] = "none"
                 \/ \E i \in DOMAIN task : task[i] = "running" /\ ENABLED TaskFinish
                 \/ TasksIn("done") = Len(feedURLs)
          /\ mpc # "fetchAll" => Len(errorsChan) + Len(articlesChan) = Len(feedURLs))
    /\ [][/\ (Len(errorsChan') + Len(articlesChan')) - (Len(errorsChan) + Len(articlesChan))
               = TasksIn("done")' - TasksIn("done")
           /\ TasksIn("done")' - TasksIn("done") \in {0, 1}
           /\ (errorsChan' # errorsChan \/ articlesChan' # articlesChan) => mpc = "fetchAll"
           /\ Len(errorsChan') >= Len(errorsChan) /\ Len(articlesChan') >= Len(articlesChan)]_vars

\* both feeds failed: two error messages, no batch, and the channels are closed
C37_Witness ==
    /\ mpc = "fetched"
    /\ Len(feedURLs) = 2
    /\ Len(errorsChan) = 2
    /\ Len(articlesChan) = 0

\* the links of the sources that succeeded
LinksOnTheWeb ==
    UNION {{web[i].items[k].link : k \in DOMAIN web[i].items} : i \in {j \in DOMAIN web : web[j].err = Nil}}

\* C38: for given results of the sources, whether FetchAll returns an error and
\* the set of links it returns are the same in whatever order the goroutines
\* finish: the error is returned exactly when some source failed and the
\* sources that succeeded gave no item, and the links are those of the sources
\* that succeeded.
C38_ResultIndependentOfOrder ==
    mpc = "fetched" =>
        /\ fetchErr # Nil <=> ((\E i \in DOMAIN web : web[i].err # Nil) /\ LinksOnTheWeb = {})
        /\ LinksOf(fetched) = (IF fetchErr # Nil THEN {} ELSE LinksOnTheWeb)

\* two feeds carry one link; the second feed finished first and its copy is
\* the one kept, ahead of the first feed's other item
C38_Witness ==
    /\ mpc = "fetched"
    /\ Len(feedURLs) = 2
    /\ \E k \in DOMAIN web[1].items : web[1].items[k].link = "https://a.example/1"
    /\ \E k \in DOMAIN web[2].items : web[2].items[k].link = "https://a.example/1"
    /\ \E a \in DOMAIN fetched :
          /\ fetched[a].link = "https://a.example/1"
          /\ fetched[a].source = feedURLs[2]
          /\ \E b \in DOMAIN fetched : b > a /\ fetched[b].source = feedURLs[1]

-----------------------------------------------------------------------------
(* Claim about the summarizer stage, under Spec                            *)

\* C20: when SelectAndSummarize returns, every selected item carries a
\* non-empty summary: the oracle's, or the fallback "Summary unavailable.".
C20_SummaryOrFallback ==
    pc = "done" => \A k \in DOMAIN selected : selected[k].summary # ""

-----------------------------------------------------------------------------
(* Claim about the error handling of SelectAndSummarize, under Spec        *)

\* C21: SelectAndSummarize returns a nil error for every non-empty input,
\* whatever the oracle answers, and no failed call stops the work on the other
\* items: every item was scored, every candidate went through tag extraction.
C21_ItemFailuresNeverAbort ==
    (pc = "done" /\ Len(articles) > 0) =>
        /\ retErr = Nil
        /\ Len(analyzed) = Len(articles)
        /\ Cardinality(extracted) = candidateCount

\* a run over several items in which the summarizing call failed for good and
\* the run still returned the selection
C21_Witness ==
    /\ pc = "done" /\ retErr = Nil /\ Len(articles) >= 2
    /\ \E k \in DOMAIN selected : selected[k].summary = "Summary unavailable."

\* the positions of the analyzed slice that hold the input item a
PlacesOf(a) == {k \in 1..Len(analyzed) : analyzed[k].id = a.id /\ analyzed[k].title = a.title}

\* C34: the scorer's output holds exactly the input items, each once and each
\* with one score, whether or not scoring calls fail: while scoring, the k-th
\* element is the k-th input item; after the sort the slice is as long as the
\* input and every input item stands at exactly one position.
C34_ScorerKeepsEveryItem ==
    /\ pc = "score" =>
          /\ Len(analyzed) = Len(articles)
          /\ \A k \in 1..(idx - 1) : PlacesOf(articles[k]) = {k}
    /\ Sorted =>
          /\ Len(analyzed) = Len(articles)
          /\ \A k \in 1..Len(articles) : Cardinality(PlacesOf(articles[k])) = 1
          /\ \A k \in 1..Len(analyzed) : analyzed[k].score \in [nan : BOOLEAN, v : Int]

\* three items, one whose scoring call failed and one scored above it, moved
\* by the sort
C34_Witness ==
    /\ pc = "extract"
    /\ Len(articles) >= 3
    /\ \E j, k \in 1..Len(analyzed) :
          /\ analyzed[j].score = Num(0) /\ analyzed[k].score = Num(110)
          /\ j > k /\ analyzed[j].id < analyzed[k].id
    /\ \E t \in DOMAIN oracle.score : <<Unreachable>> \in oracle.score[t]

-----------------------------------------------------------------------------
(* One run of main from its first statement to its last (SpecDigest): the  *)
(* users and sources tables, FetchAll, the two filters, SelectAndSummarize *)
(* as modelled above, the writes to emails_sent, email_articles and        *)
(* user_emails, and the Send calls.  main's clock stands at 0.             *)

analyzerVars == <<now, rateLimitDelay, lastRequestTime, jitter, overloadsLeft, aPhase, aLeft,
                  attemptNo, opc, inFlight, prevStart, lastStart, requested>>
fetchVars == <<feedURLs, web, task, articlesChan, errorsChan>>
seedVars == <<seedQueue, seedStats>>

\* database.GetAllSubscribedUsers: WHERE subscribed = true
GetAllSubscribedUsers(table) == SelectSeq(table, LAMBDA u : u.subscribed)

\* database.GetAllActiveSources: WHERE active = true
GetAllActiveSources(table) == SelectSeq(table, LAMBDA src : src.active)

\* main.go lines 58-67
GetUsers ==
    /\ mpc = "start"
    /\ mpc' = IF Len(GetAllSubscribedUsers(users)) = 0 THEN "exit" ELSE "feeds"
    /\ UNCHANGED <<fetchVars, mainArticles, fetchErr, history, recentArticleURLs, analyzerVars>>
    /\ UNCHANGED <<pipeVars, dupVars, retryVars, appVars>>

\* feeds.GetAllFeeds, called at main.go line 70; then FetchAll sets out
GetAllFeeds ==
    /\ mpc = "feeds"
    /\ LET active == GetAllActiveSources(sources)
       IN  IF Len(active) = 0
           THEN /\ mpc' = "fatal"
                /\ UNCHANGED <<feedURLs, task>>
           ELSE /\ feedURLs' = [i \in 1..Len(active) |-> active[i].url]
                /\ task' = [i \in 1..Len(active) |-> "none"]
                /\ mpc' = "fetchAll"
    /\ UNCHANGED <<web, articlesChan, errorsChan, mainArticles, fetchErr, history,
                   recentArticleURLs, analyzerVars>>
    /\ UNCHANGED <<pipeVars, dupVars, retryVars, appVars>>

\* main.go line 144: the list handed to SelectAndSummarize
Unfiltered(filtered, all) == all

ArticlesArgument(filtered, all) == filtered

\* main.go lines 138-144: the Analyzer is made and SelectAndSummarize is called
\* with the filtered list and topArticlesCount; an article's id is its position
CallSelectAndSummarize ==
    /\ mpc = "analyze"
    /\ pc = "idle"
    /\ LET list == ArticlesArgument(mainArticles, fetched)
       IN  articles' = [k \in 1..Len(list) |-> [id |-> k, title |-> list[k].title]]
    /\ topN' = topArticlesCount
    /\ pc' = "start"
    /\ mpc' = "select"
    /\ UNCHANGED <<oracle, analyzed, idx, candidateCount, selected, categoryCount,
                   selectedTopics, extracted, oracleCalls, retErr>>
    /\ UNCHANGED <<fetchVars, mainArticles, fetchErr, history, recentArticleURLs, analyzerVars>>
    /\ UNCHANGED <<dupVars, retryVars, appVars>>

\* main.go lines 150-154
UniqueSources(list) == {list[k].source : k \in DOMAIN list}

\* the link of an article SelectAndSummarize returned
LinkOf(a) == ArticlesArgument(mainArticles, fetched)[a.id].link

\* main.go lines 144-167: SelectAndSummarize has returned; the counters are
\* taken from main's articles variable and the emails_sent row is written
CreateEmailSent ==
    /\ mpc = "select"
    /\ pc = "done"
    /\ \/ /\ mpc' = "fatal"
          /\ UNCHANGED <<emailsSent, mIdx>>
       \/ /\ retErr = Nil
          /\ emailsSent' = Append(emailsSent,
                 [id |-> Len(emailsSent) + 1,
                  total |-> Len(mainArticles),
                  sources |-> Cardinality(UniqueSources(mainArticles)),
                  recipients |-> Len(GetAllSubscribedUsers(users)),
                  age |-> 0])
          /\ mIdx' = 1
          /\ mpc' = "save"
    /\ UNCHANGED <<users, sources, dryRun, fetched, userEmails, sends, runsLeft, seedVars>>
    /\ UNCHANGED <<fetchVars, mainArticles, fetchErr, history, recentArticleURLs, analyzerVars>>
    /\ UNCHANGED <<pipeVars, dupVars, retryVars>>

\* one iteration of the loop of lines 169-187: CreateEmailArticle writes the
\* row, or fails and main logs a warning
SaveArticle ==
    /\ mpc = "save"
    /\ mIdx <= Len(selected)
    /\ \/ history' = [history EXCEPT !.rows =
                         @ \cup {EmailArticle(Len(emailsSent), LinkOf(selected[mIdx]), 0)}]
       \/ UNCHANGED history
    /\ mIdx' = mIdx + 1
    /\ UNCHANGED <<users, sources, dryRun, fetched, emailsSent, userEmails, sends, runsLeft,
                   seedVars>>
    /\ UNCHANGED <<fetchVars, mpc, mainArticles, fetchErr, recentArticleURLs, analyzerVars>>
    /\ UNCHANGED <<pipeVars, dupVars, retryVars>>

\* main.go line 190
DeliversAlways(dry) == TRUE

Delivers(dry) == ~dry

\* main.go lines 189-215: after the writes, a dry run reports and returns
AfterSave ==
    /\ mpc = "save"
    /\ mIdx > Len(selected)
    /\ IF Delivers(dryRun)
       THEN mpc' = "send" /\ mIdx' = 1
       ELSE mpc' = "done" /\ mIdx' = 0
    /\ UNCHANGED <<users, sources, dryRun, fetched, emailsSent, userEmails, sends, runsLeft,
                   seedVars>>
    /\ UNCHANGED <<fetchVars, mainArticles, fetchErr, history, recentArticleURLs, analyzerVars>>
    /\ UNCHANGED <<pipeVars, dupVars, retryVars>>

\* what one Send call carries: the recipient, the links and the counters of
\* BuildHTML (line 222), and whether Send succeeded
Mail(user, ok) ==
    [to |-> user.id,
     links |-> {LinkOf(selected[k]) : k \in DOMAIN selected},
     total |-> Len(mainArticles),
     sources |-> Cardinality(UniqueSources(mainArticles)),
     ok |-> ok,
     age |-> 0]

\* lines 224-231: CreateUserEmail is reached when Send returned no error
RecordsAlways(ok) == TRUE
Records(ok) == ok

\* one iteration of the loop of lines 217-239: Send fails and main goes on to
\* the next user, or succeeds and CreateUserEmail writes the row (or fails
\* with a warning)
SendOne ==
    /\ mpc = "send"
    /\ mIdx <= Len(GetAllSubscribedUsers(users))
    /\ LET user == GetAllSubscribedUsers(users)[mIdx]
       IN  \E ok \in BOOLEAN :
             /\ sends' = Append(sends, Mail(user, ok))
             /\ IF Records(ok)
                THEN \/ userEmails' = userEmails \cup
                                         {[user |-> user.id, email |-> Len(emailsSent)]}
                     \/ UNCHANGED userEmails
                ELSE UNCHANGED userEmails
    /\ mIdx' = mIdx + 1
    /\ UNCHANGED <<users, sources, dryRun, fetched, emailsSent, runsLeft, seedVars>>
    /\ UNCHANGED <<fetchVars, mpc, mainArticles, fetchErr, history, recentArticleURLs,
                   analyzerVars>>
    /\ UNCHANGED <<pipeVars, dupVars, retryVars>>

\* main.go lines 241-248
Finish ==
    /\ mpc = "send"
    /\ mIdx > Len(GetAllSubscribedUsers(users))
    /\ mpc' = "done"
    /\ mIdx' = 0
    /\ UNCHANGED <<users, sources, dryRun, fetched, emailsSent, userEmails, sends, runsLeft,
                   seedVars>>
    /\ UNCHANGED <<fetchVars, mainArticles, fetchErr, history, recentArticleURLs, analyzerVars>>
    /\ UNCHANGED <<pipeVars, dupVars, retryVars>>

\* the exit status of the process: log.Fatalf exits with 1, a return from main
\* with 0
Ended == mpc \in {"exit", "done", "fatal"}
ExitStatus == IF mpc = "fatal" THEN 1 ELSE 0

MaxUsers == 2

\* what a feed may return in a run of main: as above, or two items of the last
\* hours that no other feed has
DigestResults ==
    SourceResults \cup
    { [err |-> Nil, items |-> <<Item("https://b.example/1", 0 - 2),
                                Item("https://d.example/1", 0 - 3)>>] }

User(id, subscribed) == [id |-> id, subscribed |-> subscribed]
Source(url, active) == [url |-> url, category |-> "Tech", active |-> active]

\* the users table: nobody, nobody subscribed, every other row subscribed, or
\* every row subscribed
UserTables ==
    {<<User(1, FALSE)>>} \cup {[i \in 1..n |-> User(i, i % 2 = 1)] : n \in 0..MaxUsers}
                        \cup {[i \in 1..n |-> User(i, TRUE)] : n \in 2..MaxUsers}

\* the sources table: empty, nothing active, one or two active feeds, or one
\* row inactive between two active ones
SourceTables ==
    { <<>>,
      <<Source(FeedURL(1), FALSE)>>,
      <<Source(FeedURL(1), TRUE)>>,
      <<Source(FeedURL(1), TRUE), Source(FeedURL(2), TRUE)>>,
      <<Source(FeedURL(1), TRUE), Source(FeedURL(2), FALSE), Source(FeedURL(3), TRUE)>> }

InitDigest ==
    /\ users \in UserTables
    /\ sources \in SourceTables
    /\ dryRun \in BOOLEAN
    /\ web \in [1..Len(GetAllActiveSources(sources)) -> DigestResults]
    /\ history \in Histories
    /\ oracle = NominalOracle
    /\ mpc = "start"
    /\ feedURLs = <<>> /\ task = <<>> /\ articlesChan = <<>> /\ errorsChan = <<>>
    /\ mainArticles = <<>> /\ fetchErr = Nil /\ recentArticleURLs = {}
    /\ IdleAnalyzer
    /\ articles = <<>> /\ topN = 0
    /\ pc = "idle" /\ analyzed = <<>> /\ idx = 0 /\ candidateCount = 0
    /\ selected = <<>> /\ categoryCount = <<>> /\ selectedTopics = <<>>
    /\ extracted = {} /\ retErr = Nil /\ oracleCalls = 0
    /\ fetched = <<>> /\ emailsSent = <<>> /\ userEmails = {} /\ sends = <<>> /\ mIdx = 0
    /\ runsLeft = 0 /\ seedQueue = <<>> /\ seedStats = NoStats
    /\ IdleDup
    /\ IdleRetry

NextDigest ==
    \/ GetUsers
    \/ GetAllFeeds
    \/ Spawn
    \/ TaskFinish
    \/ Collect
    \/ CheckFetched
    \/ RecencyFilter
    \/ HistoryFilter
    \/ CallSelectAndSummarize
    \/ Begin
    \/ ScoreOne
    \/ SortScored
    \/ ExtractOne
    \/ BeginSelect
    \/ SelectOne
    \/ EndSelect
    \/ SummarizeOne
    \/ Return
    \/ CreateEmailSent
    \/ SaveArticle
    \/ AfterSave
    \/ SendOne
    \/ Finish

SpecDigest == InitDigest /\ [][NextDigest]_vars

-----------------------------------------------------------------------------
(* Claims about one run of main, under SpecDigest                          *)

\* the stage a run is in: 1 fetch, 2 recency filter, 3 history filter,
\* 4 scoring, 5 tag extraction, 6 diversity selection, 7 summarization,
\* 8 persistence and delivery, 9 ended
Stage ==
    CASE mpc \in {"exit", "done", "fatal"} -> 9
      [] mpc \in {"save", "send"} -> 8
      [] mpc = "select" /\ pc = "done" -> 8
      [] mpc = "select" /\ pc = "summarize" -> 7
      [] mpc = "select" /\ pc = "select" -> 6
      [] mpc = "select" /\ pc = "extract" -> 5
      [] mpc \in {"analyze", "select"} -> 4
      [] mpc = "history" -> 3
      [] mpc = "recency" -> 2
      [] OTHER -> 1

\* a fetched item under the title of a, which both filters let through
PassedFilters(a) ==
    \E j \in DOMAIN fetched :
        /\ fetched[j].title = a.title
        /\ KeptByWindow(fetched[j])
        /\ history.fails \/ NotRecorded(fetched[j])

IdsOf(list) == {list[k].id : k \in DOMAIN list}

\* C22: the stages of a run come in the order fetch, recency filter, history
\* filter, scoring, tag extraction, selection, summarization, persistence and
\* delivery, and a stage starts only when the one before is through with all
\* items; SelectAndSummarize works on items that passed both filters only, and
\* the summarizing loop works on the selected items only.
C22_StagesInOrder ==
    /\ [][Stage' >= Stage]_vars
    /\ [](Stage >= 2 => (\A i \in DOMAIN task : task[i] = "done"))
    /\ []((mpc = "select" /\ Stage <= 7) =>
             /\ Len(articles) = Len(mainArticles)
             /\ \A k \in DOMAIN articles : PassedFilters(articles[k]))
    /\ []((mpc = "select" /\ Stage >= 5) =>
             /\ Len(analyzed) = Len(articles)
             /\ IdsOf(analyzed) = IdsOf(articles))
    /\ []((mpc = "select" /\ Stage >= 6) => Cardinality(extracted) = candidateCount)
    /\ []((mpc = "select" /\ Stage >= 5) =>
             /\ IdsOf(selected) \subseteq IdsOf(analyzed)
             /\ \A k \in DOMAIN analyzed : analyzed[k].summary = "")
    /\ [][(Stage = 7 /\ Stage' = 7) =>
             /\ IdsOf(selected') = IdsOf(selected)
             /\ \A k \in DOMAIN selected : k >= idx' => selected'[k].summary = ""]_vars
    /\ [](Stage = 8 => \A k \in DOMAIN selected : selected[k].summary # "")

\* a run that was delivered: the filters dropped a fetched item, and an item
\* that was scored was not selected and got no summary
C22_Witness ==
    /\ mpc = "done"
    /\ Len(sends) > 0
    /\ Len(fetched) > Len(articles)
    /\ Len(selected) >= 1
    /\ Len(selected) < Len(articles)

\* FetchAll was called and has returned
Fetched == Len(task) > 0 /\ mpc \notin {"start", "feeds", "fetchAll"}

\* C23: when no item remains after fetching, after the recency filter or after
\* the history filter (some source having answered), the run ends normally,
\* with exit status 0, and has made no oracle call, written no emails_sent or
\* email_articles row and sent no email.
C23_NothingToSendIsNormal ==
    (/\ Ended /\ Fetched
     /\ \E i \in DOMAIN web : web[i].err = Nil
     /\ mainArticles = <<>>) =>
        /\ ExitStatus = 0
        /\ pc = "idle"
        /\ emailsSent = <<>>
        /\ \A row \in history.rows : row.email = 0
        /\ sends = <<>>

\* C28: the total handed to CreateEmailSent and to BuildHTML is the number of
\* unique items FetchAll returned, and the number of sources is the number of
\* distinct sources among all fetched items.
C28_CountersOfAllFetched ==
    /\ \A k \in DOMAIN emailsSent :
          /\ emailsSent[k].total = Len(fetched)
          /\ emailsSent[k].sources = Cardinality(UniqueSources(fetched))
    /\ \A k \in DOMAIN sends :
          /\ sends[k].total = Len(fetched)
          /\ sends[k].sources = Cardinality(UniqueSources(fetched))

\* C29: with no subscribed user or no active source the program ends with a
\* non-zero exit status, and before any feed is fetched, any oracle call is
\* made or any email is sent.
C29_NoUsersOrSourcesIsAnError ==
    (Ended /\ (Len(GetAllSubscribedUsers(users)) = 0 \/ Len(GetAllActiveSources(sources)) = 0)) =>
        /\ ExitStatus # 0
        /\ \A i \in DOMAIN task : task[i] = "none"
        /\ pc = "idle"
        /\ sends = <<>>

\* the emails_sent row of this run, as a run with or without --dry-run writes it
EmailSentRow ==
    [id |-> 1, total |-> Len(mainArticles),
     sources |-> Cardinality(UniqueSources(mainArticles)),
     recipients |-> Len(GetAllSubscribedUsers(users)), age |-> 0]

\* the links of the email_articles rows of this run
SavedLinks == {row.url : row \in {r \in history.rows : r.email = 1}}

\* C24: a run with --dry-run goes through fetching, filtering, scoring,
\* selection and summarization and writes the emails_sent row and the
\* email_articles rows as a run without the flag does: once the save loop is
\* over both have written the one emails_sent row and rows for selected items
\* only.  The dry run calls Send for nobody and writes no user_emails row.
C24_DryRunSkipsDeliveryOnly ==
    /\ dryRun => (sends = <<>> /\ userEmails = {})
    /\ (mpc \in {"send", "done"}) =>
          /\ pc = "done"
          /\ \A k \in DOMAIN selected : selected[k].summary # ""
          /\ emailsSent = <<EmailSentRow>>
          /\ SavedLinks \subseteq {LinkOf(selected[k]) : k \in DOMAIN selected}
    /\ (mpc = "done" /\ ~dryRun) =>
          Len(sends) = Len(GetAllSubscribedUsers(users))

\* a dry run that ended with its emails_sent row and two email_articles rows
C24_Witness ==
    /\ dryRun
    /\ mpc = "done"
    /\ emailsSent = <<EmailSentRow>>
    /\ Cardinality(SavedLinks) >= 2
    /\ sends = <<>> /\ userEmails = {}

\* main's successCount and failCount
SuccessCount == Cardinality({k \in DOMAIN sends : sends[k].ok})
FailCount == Cardinality({k \in DOMAIN sends : ~sends[k].ok})

\* C36: in a run that is no dry run, Send is called once for every subscribed
\* user, in their order, whatever the outcome of the calls before; a user_emails
\* row is written for a user only in the iteration in which Send to that user
\* succeeded; and when the loop has ended successCount + failCount is the number
\* of subscribed users.
C36_SendFailuresAreIsolated ==
    /\ [](mpc = "send" =>
            /\ Len(sends) = mIdx - 1
            /\ \A k \in DOMAIN sends : sends[k].to = GetAllSubscribedUsers(users)[k].id)
    /\ []((mpc = "done" /\ ~dryRun) =>
            /\ [k \in DOMAIN sends |-> sends[k].to]
                  = [k \in DOMAIN GetAllSubscribedUsers(users) |-> GetAllSubscribedUsers(users)[k].id]
            /\ SuccessCount + FailCount = Len(GetAllSubscribedUsers(users)))
    /\ [](\A row \in userEmails : \E k \in DOMAIN sends : sends[k].to = row.user /\ sends[k].ok)
    /\ [][userEmails' # userEmails =>
            /\ Len(sends') = Len(sends) + 1
            /\ sends'[Len(sends')].ok
            /\ userEmails' = userEmails \cup
                  {[user |-> sends'[Len(sends')].to, email |-> Len(emailsSent)]}]_vars

\* the send to the first of two subscribers failed, the send to the second
\* succeeded and was recorded
C36_Witness ==
    /\ mpc = "done"
    /\ ~dryRun
    /\ Len(sends) = 2
    /\ ~sends[1].ok /\ sends[2].ok
    /\ userEmails = {[user |-> sends[2].to, email |-> 1]}

\* C39: with a candidate and N >= 1 selectWithDiversity accepts the first
\* candidate, so what it returns is not empty; main calls SelectAndSummarize
\* with N = 8 and at least one item, so the call never fails with "no articles
\* to analyze" and never gives an empty selection.
C39_FirstCandidateAccepted ==
    /\ (pc \in {"select", "summarize", "done"} /\ Len(analyzed) >= 1 /\ topN >= 1
           /\ (pc = "select" => idx > 1)) =>
          /\ Len(selected) >= 1
          /\ selected[1].id = analyzed[1].id
          /\ selected[1].title = analyzed[1].title
    /\ pc # "idle" =>
          /\ Len(articles) >= 1
          /\ topN = topArticlesCount
          /\ retErr = Nil
    /\ mpc \in {"save", "send", "done"} => Len(selected) >= 1

\* SelectAndSummarize returned the first of its two candidates and passed
\* over the other
C39_Witness ==
    /\ mpc = "select"
    /\ pc = "done"
    /\ Len(analyzed) = 2
    /\ Len(selected) = 1
    /\ selected[1].id = analyzed[1].id

-----------------------------------------------------------------------------
(* Successive runs of main on one database (SpecHistory): when a run has   *)
(* ended, days pass, the rows and the mails of earlier runs age, the feeds *)
(* answer anew and main starts again.                                      *)

MoreRuns == 1

\* the days between two runs
DaysBetween == {1, HistoryDays}

Aged(r, days) == [r EXCEPT !.age = @ + days]

\* the program is started again, days later
RunAgain ==
    /\ Ended
    /\ runsLeft > 0
    /\ runsLeft' = runsLeft - 1
    /\ \E days \in DaysBetween :
        /\ \E f \in BOOLEAN :
              history' = [fails |-> f, rows |-> {Aged(r, days) : r \in history.rows}]
        /\ emailsSent' = [k \in DOMAIN emailsSent |-> Aged(emailsSent[k], days)]
        /\ sends' = [k \in DOMAIN sends |-> Aged(sends[k], days)]
    /\ dryRun' \in BOOLEAN
    /\ web' \in [1..Len(GetAllActiveSources(sources)) -> DigestResults]
    /\ mpc' = "start"
    /\ feedURLs' = <<>> /\ task' = <<>> /\ articlesChan' = <<>> /\ errorsChan' = <<>>
    /\ mainArticles' = <<>> /\ fetchErr' = Nil /\ recentArticleURLs' = {}
    /\ articles' = <<>> /\ topN' = 0
    /\ pc' = "idle" /\ analyzed' = <<>> /\ idx' = 0 /\ candidateCount' = 0
    /\ selected' = <<>> /\ categoryCount' = <<>> /\ selectedTopics' = <<>>
    /\ extracted' = {} /\ retErr' = Nil /\ oracleCalls' = 0
    /\ fetched' = <<>> /\ mIdx' = 0
    /\ UNCHANGED <<oracle, users, sources, userEmails, seedVars, analyzerVars>>
    /\ UNCHANGED <<dupVars, retryVars>>

\* one subscriber, one source, a database with no digest yet
InitHistory ==
    /\ users = <<User(1, TRUE)>>
    /\ sources = <<Source(FeedURL(1), TRUE)>>
    /\ dryRun \in BOOLEAN
    /\ web \in [1..1 -> DigestResults]
    /\ history \in {[fails |-> f, rows |-> {}] : f \in BOOLEAN}
    /\ oracle = NominalOracle
    /\ mpc = "start"
    /\ feedURLs = <<>> /\ task = <<>> /\ articlesChan = <<>> /\ errorsChan = <<>>
    /\ mainArticles = <<>> /\ fetchErr = Nil /\ recentArticleURLs = {}
    /\ IdleAnalyzer
    /\ articles = <<>> /\ topN = 0
    /\ pc = "idle" /\ analyzed = <<>> /\ idx = 0 /\ candidateCount = 0
    /\ selected = <<>> /\ categoryCount = <<>> /\ selectedTopics = <<>>
    /\ extracted = {} /\ retErr = Nil /\ oracleCalls = 0
    /\ fetched = <<>> /\ emailsSent = <<>> /\ userEmails = {} /\ sends = <<>> /\ mIdx = 0
    /\ runsLeft = MoreRuns /\ seedQueue = <<>> /\ seedStats = NoStats
    /\ IdleDup
    /\ IdleRetry

NextHistory == NextDigest \/ RunAgain

SpecHistory == InitHistory /\ [][NextHistory]_vars

-----------------------------------------------------------------------------
(* Claims about successive runs, under SpecHistory                         *)

\* the link was in a digest that Send delivered to a subscriber in the last
\* 30 days
DeliveredLately(link) ==
    \E m \in DOMAIN sends :
        sends[m].ok /\ link \in sends[m].links /\ sends[m].age < HistoryDays

\* C25: the history filter drops an item only if its link was part of a digest
\* actually sent to at least one subscriber within the last 30 days.
C25_DroppedOnlyIfDelivered ==
    [][mpc = "history" =>
          \A k \in DOMAIN mainArticles :
              mainArticles[k].link \notin LinksOf(mainArticles') =>
                  DeliveredLately(mainArticles[k].link)]_vars

\* C26: no link is in two digests, delivered by runs less than 30 days apart.
C26_NoLinkTwiceInWindow ==
    \A m, n \in DOMAIN sends :
        (/\ sends[m].ok /\ sends[n].ok
         /\ sends[m].age > sends[n].age
         /\ sends[m].age - sends[n].age < HistoryDays) =>
            sends[m].links \cap sends[n].links = {}

-----------------------------------------------------------------------------
(* The end-to-end scenario (SpecScenario): three sources return 10, 5 and  *)
(* 8 items, two links are each returned by two sources, 6 of the 21 unique *)
(* items are older than the window, 3 of the others are in the history,    *)
(* and the oracle names four categories for the 12 items left.             *)

ScenarioLinks ==
    <<"https://s.example/01", "https://s.example/02", "https://s.example/03",
      "https://s.example/04", "https://s.example/05", "https://s.example/06",
      "https://s.example/07", "https://s.example/08", "https://s.example/09",
      "https://s.example/10", "https://s.example/11", "https://s.example/12",
      "https://s.example/13", "https://s.example/14", "https://s.example/15",
      "https://s.example/16", "https://s.example/17", "https://s.example/18",
      "https://s.example/19", "https://s.example/20", "https://s.example/21">>

\* item n: the items 16 to 21 were published two days ago, the others an hour ago
ScenarioItem(n) ==
    [title |-> ScenarioTitles[((n - 1) % Len(ScenarioTitles)) + 1],
     link |-> ScenarioLinks[n],
     published |-> IF n >= 16 THEN 0 - 48 ELSE 0 - 1]

\* the first source returns the items 1 to 10, the second 10 to 14, the third
\* 14 to 21
ScenarioWeb ==
    <<[err |-> Nil, items |-> [k \in 1..10 |-> ScenarioItem(k)]],
      [err |-> Nil, items |-> [k \in 1..5 |-> ScenarioItem(k + 9)]],
      [err |-> Nil, items |-> [k \in 1..8 |-> ScenarioItem(k + 13)]]>>

\* the items 13, 14 and 15 were sent 5 days ago, the item 1 was sent 31 days ago
ScenarioHistory ==
    [fails |-> FALSE,
     rows |-> {HistoryRow(ScenarioLinks[13], 5), HistoryRow(ScenarioLinks[14], 5),
               HistoryRow(ScenarioLinks[15], 5), HistoryRow(ScenarioLinks[1], 31)}]

\* the category the oracle names for the item of each rank: three items per
\* category; nine items in one category; six in one category; and the two
\* Rust titles alone in one category
ScenarioPlans ==
    { <<1, 2, 3, 4, 1, 2, 3, 4, 1, 2, 3, 4>>,
      <<1, 1, 1, 1, 2, 1, 1, 3, 1, 1, 4, 1>>,
      <<1, 1, 1, 1, 1, 1, 2, 2, 3, 3, 4, 4>>,
      <<1, 2, 1, 2, 2, 3, 3, 3, 4, 4, 4, 2>> }

ScenarioOracle(plan) ==
    LET titles == {ScenarioTitles[k] : k \in DOMAIN ScenarioTitles}
        rank(t) == CHOOSE k \in DOMAIN ScenarioTitles : ScenarioTitles[k] = t
    IN  [score |-> [t \in titles |-> {<<Answer(ScenarioScores[rank(t)])>>}],
         tags |-> [t \in titles |-> {<<Answer(ScenarioTagText(plan[rank(t)]))>>}],
         summary |-> [t \in titles |-> {<<Answer(NominalSummaryText)>>}]]

InitScenario ==
    /\ users = <<User(1, TRUE)>>
    /\ sources = [i \in 1..3 |-> Source(FeedURL(i), TRUE)]
    /\ dryRun \in BOOLEAN
    /\ web = ScenarioWeb
    /\ history = ScenarioHistory
    /\ \E plan \in ScenarioPlans : oracle = ScenarioOracle(plan)
    /\ mpc = "start"
    /\ feedURLs = <<>> /\ task = <<>> /\ articlesChan = <<>> /\ errorsChan = <<>>
    /\ mainArticles = <<>> /\ fetchErr = Nil /\ recentArticleURLs = {}
    /\ IdleAnalyzer
    /\ articles = <<>> /\ topN = 0
    /\ pc = "idle" /\ analyzed = <<>> /\ idx = 0 /\ candidateCount = 0
    /\ selected = <<>> /\ categoryCount = <<>> /\ selectedTopics = <<>>
    /\ extracted = {} /\ retErr = Nil /\ oracleCalls = 0
    /\ fetched = <<>> /\ emailsSent = <<>> /\ userEmails = {} /\ sends = <<>> /\ mIdx = 0
    /\ runsLeft = 0 /\ seedQueue = <<>> /\ seedStats = NoStats
    /\ IdleDup
    /\ IdleRetry

SpecScenario == InitScenario /\ [][NextDigest]_vars

-----------------------------------------------------------------------------
(* Claim about the end-to-end scenario, under SpecScenario                 *)

\* the counts of the scenario up to the scoring: 21 unique items, 15 after the
\* recency filter, 12 after the history filter, all 12 scored
ScenarioCounts ==
    /\ mpc \in {"fetched", "recency"} => Len(mainArticles) = 21
    /\ mpc = "history" => Len(mainArticles) = 15
    /\ mpc \in {"analyze", "select", "save", "send", "done"} => Len(mainArticles) = 12
    /\ (mpc = "select" /\ pc \in {"extract", "select", "summarize", "done"}) =>
          /\ Len(analyzed) = 12
          /\ \A k \in DOMAIN analyzed : analyzed[k].id \in 1..12

CategoriesOf(list) == {list[k].category : k \in DOMAIN list}
InCategory(list, c) == {k \in DOMAIN list : list[k].category = c}

\* the selection is over
Selected == mpc = "select" /\ pc \in {"summarize", "done"}

\* the title of item k is a duplicate topic of no other item's title
Clean(k) ==
    \A j \in DOMAIN analyzed :
        j # k => /\ ~DuplicateTable[<<analyzed[k].title, analyzed[j].title>>]
                 /\ ~DuplicateTable[<<analyzed[j].title, analyzed[k].title>>]

TwoCleanPerCategory ==
    \A c \in CategoriesOf(analyzed) :
        Cardinality({k \in InCategory(analyzed, c) : Clean(k)}) >= 2

\* C27, as stated: in the scenario the counts are 21, 15 and 12, all 12 items
\* are scored, four categories are present, and the selection returns exactly
\* 8 items with no category holding more than 2.
C27_ExactlyEight ==
    /\ ScenarioCounts
    /\ Selected =>
          /\ Cardinality(CategoriesOf(analyzed)) = 4
          /\ Len(selected) = 8
          /\ \A c \in CategoriesOf(selected) : Cardinality(InCategory(selected, c)) <= 2

\* C27, corrected: the counts are as stated and no category holds more than 2
\* selected items, but the selection returns at most 8 items; it returns
\* exactly 8 when each of the four categories holds at least two items whose
\* titles duplicate no other title.
C27_AtMostEight ==
    /\ ScenarioCounts
    /\ Selected =>
          /\ Cardinality(CategoriesOf(analyzed)) = 4
          /\ Len(selected) <= 8
          /\ \A c \in CategoriesOf(selected) : Cardinality(InCategory(selected, c)) <= 2
          /\ TwoCleanPerCategory => Len(selected) = 8

\* the scenario ran to the end of the selection with two clean titles in each
\* category, and 8 items were selected
C27_Witness ==
    /\ Selected /\ pc = "done"
    /\ Len(fetched) = 21 /\ Len(analyzed) = 12
    /\ TwoCleanPerCategory
    /\ Len(selected) = 8

-----------------------------------------------------------------------------
(* The seed script (SpecSeed): seed_sources ranges over feeds.FeedSources  *)
(* and writes the sources table; then it is run again.  The database       *)
(* answers every statement; the sources table has a unique index on url.   *)

SeedRuns == 1

\* feeds.FeedSources, cut down to three categories and four feeds
FeedSources ==
    [c \in {"General Tech News", "Hacker News", "DevOps & Cloud"} |->
        CASE c = "General Tech News" -> <<FeedURL(1), FeedURL(2)>>
          [] c = "Hacker News" -> <<FeedURL(3)>>
          [] OTHER -> <<FeedURL(4)>>]

\* the orders in which range may visit the keys of a map: all of them
RECURSIVE KeyOrders(_)
KeyOrders(keys) ==
    IF keys = {} THEN {<<>>}
    ELSE UNION { { <<k>> \o rest : rest \in KeyOrders(keys \ {k}) } : k \in keys }

\* the (category, url) pairs in the order the two loops visit them
RECURSIVE Visits(_)
Visits(order) ==
    IF order = <<>> THEN <<>>
    ELSE [k \in DOMAIN FeedSources[Head(order)] |->
             [category |-> Head(order), url |-> FeedSources[Head(order)][k]]]
         \o Visits(Tail(order))

\* database.GetSourceByURL: the rows found by WHERE url = ?
NeverFound(table, url) == <<>>

GetSourceByURL(table, url) == SelectSeq(table, LAMBDA row : row.url = url)

\* database.CreateSource: the row is inserted unless the unique index on url
\* refuses it
CreateSource(table, category, url, active) ==
    IF \E k \in DOMAIN table : table[k].url = url
    THEN [err |-> "duplicate key value violates unique constraint", table |-> table]
    ELSE [err |-> Nil,
          table |-> Append(table, [url |-> url, category |-> category, active |-> active])]

\* seed_sources lines 280-284: the counters are zeroed and the range begins
SeedStart ==
    /\ mpc = "seed"
    /\ seedQueue' \in {Visits(order) : order \in KeyOrders(DOMAIN FeedSources)}
    /\ seedStats' = NoStats
    /\ mpc' = "seeding"
    /\ UNCHANGED <<users, sources, dryRun, fetched, emailsSent, userEmails, sends, mIdx,
                   runsLeft>>
    /\ UNCHANGED <<fetchVars, mainArticles, fetchErr, history, recentArticleURLs, analyzerVars>>
    /\ UNCHANGED <<pipeVars, dupVars, retryVars>>

\* one iteration of the inner loop, lines 287-310
SeedOne ==
    /\ mpc = "seeding"
    /\ seedQueue # <<>>
    /\ LET visit == Head(seedQueue)
           existing == GetSourceByURL(sources, visit.url)
           created == CreateSource(sources, visit.category, visit.url, TRUE)
       IN  IF existing # <<>>
           THEN /\ seedStats' = [seedStats EXCEPT !.processed = @ + 1, !.skipped = @ + 1]
                /\ UNCHANGED sources
           ELSE IF created.err # Nil
           THEN /\ seedStats' = [seedStats EXCEPT !.processed = @ + 1]
                /\ UNCHANGED sources
           ELSE /\ seedStats' = [seedStats EXCEPT !.processed = @ + 1, !.added = @ + 1]
                /\ sources' = created.table
    /\ seedQueue' = Tail(seedQueue)
    /\ UNCHANGED <<users, dryRun, fetched, emailsSent, userEmails, sends, mIdx, runsLeft>>
    /\ UNCHANGED <<fetchVars, mpc, mainArticles, fetchErr, history, recentArticleURLs,
                   analyzerVars>>
    /\ UNCHANGED <<pipeVars, dupVars, retryVars>>

\* lines 313-318: the summary is logged and the script ends
SeedEnd ==
    /\ mpc = "seeding"
    /\ seedQueue = <<>>
    /\ mpc' = "seeded"
    /\ UNCHANGED <<fetchVars, mainArticles, fetchErr, history, recentArticleURLs, analyzerVars>>
    /\ UNCHANGED <<pipeVars, dupVars, retryVars, appVars>>

\* the script is started again
SeedAgain ==
    /\ mpc = "seeded"
    /\ runsLeft > 0
    /\ runsLeft' = runsLeft - 1
    /\ mpc' = "seed"
    /\ UNCHANGED <<users, sources, dryRun, fetched, emailsSent, userEmails, sends, mIdx,
                   seedVars>>
    /\ UNCHANGED <<fetchVars, mainArticles, fetchErr, history, recentArticleURLs, analyzerVars>>
    /\ UNCHANGED <<pipeVars, dupVars, retryVars>>

\* the sources table before the first run: empty, or holding some of the
\* feeds (one of them switched off), or a feed that is not in FeedSources
SeedTables ==
    { <<>>,
      <<[url |-> FeedURL(2), category |-> "Hacker News", active |-> FALSE]>>,
      <<[url |-> FeedURL(4), category |-> "DevOps & Cloud", active |-> TRUE],
        [url |-> FeedURL(1), category |-> "General Tech News", active |-> TRUE]>>,
      <<[url |-> "https://e.example/rss", category |-> "Other", active |-> TRUE]>> }

InitSeed ==
    /\ sources \in SeedTables
    /\ runsLeft = SeedRuns
    /\ seedQueue = <<>>
    /\ seedStats = NoStats
    /\ mpc = "seed"
    /\ users = <<>> /\ dryRun = FALSE /\ fetched = <<>>
    /\ emailsSent = <<>> /\ userEmails = {} /\ sends = <<>> /\ mIdx = 0
    /\ feedURLs = <<>> /\ web = <<>> /\ task = <<>>
    /\ articlesChan = <<>> /\ errorsChan = <<>>
    /\ mainArticles = <<>> /\ fetchErr = Nil
    /\ history = [fails |-> FALSE, rows |-> {}] /\ recentArticleURLs = {}
    /\ IdleAnalyzer
    /\ IdlePipe
    /\ IdleDup
    /\ IdleRetry

NextSeed == SeedStart \/ SeedOne \/ SeedEnd \/ SeedAgain

SpecSeed == InitSeed /\ [][NextSeed]_vars

-----------------------------------------------------------------------------
(* Claim about the seed script, under SpecSeed                             *)

\* a run after the first
LaterRun == runsLeft < SeedRuns

AllVisits == Len(Visits(CHOOSE order \in KeyOrders(DOMAIN FeedSources) : TRUE))

-----------------------------------------------------------------------------
(* One run of main with an oracle that may fail (SpecBudget), in which     *)
(* main and the goroutines of FetchAll keep running and every call they    *)
(* make returns: a step that can be taken is taken in the end.             *)

\* what a feed may return in these runs: an error, or two items
BudgetResults ==
    { [err |-> "context deadline exceeded", items |-> <<>>],
      [err |-> Nil, items |-> <<Item("https://a.example/1", 0 - 1),
                                Item("https://b.example/1", 0 - 25)>>],
      [err |-> Nil, items |-> <<Item("https://b.example/1", 0 - 2),
                                Item("https://d.example/1", 0 - 3)>>] }

InitBudget ==
    /\ users = <<User(1, TRUE), User(2, FALSE)>>
    /\ sources = <<Source(FeedURL(1), TRUE), Source(FeedURL(2), TRUE)>>
    /\ dryRun \in BOOLEAN
    /\ web \in [1..Len(GetAllActiveSources(sources)) -> BudgetResults]
    /\ history \in {h \in Histories : h.rows = {}}
    /\ oracle \in OracleProfiles
    /\ mpc = "start"
    /\ feedURLs = <<>> /\ task = <<>> /\ articlesChan = <<>> /\ errorsChan = <<>>
    /\ mainArticles = <<>> /\ fetchErr = Nil /\ recentArticleURLs = {}
    /\ IdleAnalyzer
    /\ articles = <<>> /\ topN = 0
    /\ pc = "idle" /\ analyzed = <<>> /\ idx = 0 /\ candidateCount = 0
    /\ selected = <<>> /\ categoryCount = <<>> /\ selectedTopics = <<>>
    /\ extracted = {} /\ retErr = Nil /\ oracleCalls = 0
    /\ fetched = <<>> /\ emailsSent = <<>> /\ userEmails = {} /\ sends = <<>> /\ mIdx = 0
    /\ runsLeft = 0 /\ seedQueue = <<>> /\ seedStats = NoStats
    /\ IdleDup
    /\ IdleRetry

SpecBudget == InitBudget /\ [][NextDigest]_vars /\ WF_vars(NextDigest)

\* C40: a run in which every feed fetch and every oracle call returns comes
\* to its end, and with M items handed to SelectAndSummarize and N asked for
\* the oracle is invoked at most 6 * (M + min(3 * N, M) + number of selected
\* items) times.
C40_TerminatesWithinBudget ==
    /\ <>Ended
    /\ [](oracleCalls <= (OracleMaxRetries + 1)
                           * (Len(articles) + Min(3 * topN, Len(articles)) + Len(selected)))
    /\ [](pc \in {"score", "extract"} =>
            oracleCalls <= (OracleMaxRetries + 1) * (Len(articles) + Min(3 * topN, Len(articles))))

\* a run that ended after every scoring call of its three items had used its
\* six attempts
C40_Witness ==
    /\ mpc = "done"
    /\ Len(articles) = 3
    /\ oracleCalls = (OracleMaxRetries + 1) * Len(articles) + candidateCount + Len(selected)

====
